---- MODULE Spec2Model ----
(***************************************************************************)
(* Model of the sales-insights engine (lib/insights.js): parseDate,        *)
(* getISOWeekKey, getQuantity, getRevenue, computeGrowth and the           *)
(* generateInsights pipeline.                                              *)
(*                                                                         *)
(* Conventions.  A JavaScript string is a sequence of one-character        *)
(* strings.  A JavaScript value is a record [t, n, s]: t is its type tag,  *)
(* n its numeric payload, s its characters.  Finite numbers are integers   *)
(* (exact arithmetic); NaN and +/-Infinity have their own tags.            *)
(***************************************************************************)
EXTENDS Integers, Sequences, FiniteSets, TLC

VARIABLES
    dateIn,     \* parseDate: the argument dateStr (a JavaScript value)
    parsed,     \* parseDate: the returned value, as [called, r]
    rowIn,      \* getQuantity / getRevenue: the argument row
    qtyOut,     \* getQuantity(rowIn), as [called, r]
    revOut,     \* getRevenue(rowIn), as [called, r]
    current,    \* computeGrowth: first argument
    previous,   \* computeGrowth: second argument
    growth,     \* computeGrowth(current, previous), as [called, r]
    rows,       \* generateInsights: the argument rows
    rows0,      \* the rows as the caller built them, before any call
    pc,         \* generateInsights: position in the pipeline
    callNo,     \* number of generateInsights calls started on rows
    findings,   \* generateInsights: local list findings
    actions,    \* generateInsights: local list actions
    warnings,   \* generateInsights: local list warnings
    result,     \* value returned by the current call, as [called, r]
    result1,    \* value returned by the first call, as [called, r]
    productRows,    \* groupByProduct: the argument rows
    grouped,        \* groupByProduct(productRows), as [called, r]
    periodValuesIn, \* detectAnomalies: the argument periodValues
    anomalies,      \* detectAnomalies(periodValuesIn), as [called, r]
    cardRows,       \* SalesInsightsCard: the prop rows of the last render
    insights,       \* SalesInsightsCard: state insights (null as NoResult)
    loading,        \* SalesInsightsCard: state loading
    timer,          \* SalesInsightsCard: the pending setTimeout and its rows
    effectDue,      \* SalesInsightsCard: rendered with new rows, effect not yet run
    open,           \* ImportCard: the prop open (openImport of the page)
    isProcessing,   \* ImportCard: state isProcessing
    error,          \* ImportCard: state error
    session,        \* ImportCard: number of times the modal was opened
    files,          \* ImportCard: number of files accepted by handleFile
    reading,        \* ImportCard: handleFile calls awaiting file.text()
    closing,        \* ImportCard: pending 500 ms timers, oldest first
    pageRows        \* page: rows as set by onImport (0: the initial data)

vars == <<dateIn, parsed, rowIn, qtyOut, revOut, current, previous, growth,
          rows, rows0, pc, callNo, findings, actions, warnings, result, result1,
          productRows, grouped, periodValuesIn, anomalies,
          cardRows, insights, loading, timer, effectDue,
          open, isProcessing, error, session, files, reading, closing, pageRows>>

dateVars == <<dateIn, parsed>>
accVars == <<rowIn, qtyOut, revOut>>
growthVars == <<current, previous, growth>>
pipeVars == <<rows, rows0, pc, callNo, findings, actions, warnings, result, result1>>
groupVars == <<productRows, grouped>>
anomalyVars == <<periodValuesIn, anomalies>>
cardVars == <<cardRows, insights, loading, timer, effectDue>>
importVars == <<open, isProcessing, error, session, files, reading, closing, pageRows>>

\* ------------------------------------------------------------ JS values

Undefined == [t |-> "undefined", n |-> 0, s |-> <<>>]
Null == [t |-> "null", n |-> 0, s |-> <<>>]
NaN == [t |-> "NaN", n |-> 0, s |-> <<>>]
PosInf == [t |-> "Infinity", n |-> 1, s |-> <<>>]
NegInf == [t |-> "Infinity", n |-> -1, s |-> <<>>]
Num(i) == [t |-> "number", n |-> i, s |-> <<>>]
Str(cs) == [t |-> "string", n |-> 0, s |-> cs]
Bool(b) == [t |-> "boolean", n |-> IF b THEN 1 ELSE 0, s |-> <<>>]
Obj == [t |-> "object", n |-> 0, s |-> <<>>]
\* The outcome of an operation that throws a TypeError.
Thrown == [t |-> "throw", n |-> 0, s |-> <<>>]

\* ToBoolean(v), as in `!dateStr` and `a || b`.
Truthy(v) ==
    CASE v.t \in {"undefined", "null", "NaN"} -> FALSE
      [] v.t = "number" -> v.n # 0
      [] v.t = "string" -> Len(v.s) > 0
      [] v.t = "boolean" -> v.n = 1
      [] OTHER -> TRUE

\* ------------------------------------------------------------ strings

DigitChars == <<"0", "1", "2", "3", "4", "5", "6", "7", "8", "9">>
IsDigit(c) == \E i \in 1..10 : DigitChars[i] = c
DigitVal(c) == (CHOOSE i \in 1..10 : DigitChars[i] = c) - 1
IsSpace(c) == c \in {" ", "\t", "\n"}

RECURSIVE TrimStart(_)
TrimStart(cs) ==
    IF cs # <<>> /\ IsSpace(Head(cs)) THEN TrimStart(Tail(cs)) ELSE cs

RECURSIVE TrimEnd(_)
TrimEnd(cs) ==
    IF cs # <<>> /\ IsSpace(cs[Len(cs)])
    THEN TrimEnd(SubSeq(cs, 1, Len(cs) - 1))
    ELSE cs

\* String.prototype.trim
Trim(cs) == TrimEnd(TrimStart(cs))

\* parseInt(cs, 10) of a string of decimal digits
RECURSIVE ParseInt(_)
ParseInt(cs) ==
    IF cs = <<>> THEN 0
    ELSE 10 * ParseInt(SubSeq(cs, 1, Len(cs) - 1)) + DigitVal(cs[Len(cs)])

\* String(i) of a non-negative integer
RECURSIVE NatToStr(_)
NatToStr(i) ==
    IF i < 10 THEN <<DigitChars[i + 1]>>
    ELSE NatToStr(i \div 10) \o <<DigitChars[(i % 10) + 1]>>

\* String(i).padStart(2, "0")
Pad2(i) == IF i < 10 THEN <<"0">> \o NatToStr(i) ELSE NatToStr(i)

AllDigits(cs, lo, hi) == \A i \in lo..hi : IsDigit(cs[i])

\* /^(\d{2})-(\d{2})-(\d{4})$/
MatchDMY(cs) ==
    /\ Len(cs) = 10
    /\ AllDigits(cs, 1, 2) /\ cs[3] = "-"
    /\ AllDigits(cs, 4, 5) /\ cs[6] = "-"
    /\ AllDigits(cs, 7, 10)

\* /^(\d{4})-(\d{2})-(\d{2})$/
MatchYMD(cs) ==
    /\ Len(cs) = 10
    /\ AllDigits(cs, 1, 4) /\ cs[5] = "-"
    /\ AllDigits(cs, 6, 7) /\ cs[8] = "-"
    /\ AllDigits(cs, 9, 10)

\* ------------------------------------------------------------ Date

IsLeap(y) == (y % 4 = 0 /\ y % 100 # 0) \/ y % 400 = 0

DaysInMonth(y, m) ==
    CASE m = 2 -> IF IsLeap(y) THEN 29 ELSE 28
      [] m \in {4, 6, 9, 11} -> 30
      [] OTHER -> 31

\* Days from 1 January to the first day of month m (m = 13: the year's length).
DaysBeforeMonth(y, m) ==
    <<0, 31, 59, 90, 120, 151, 181, 212, 243, 273, 304, 334, 365>>[m]
        + (IF m > 2 /\ IsLeap(y) THEN 1 ELSE 0)

\* Days from 1 January of year 0 to 1 January of year y (y >= 0).
DaysBeforeYear(y) ==
    365 * y + ((y + 3) \div 4) - ((y + 99) \div 100) + ((y + 399) \div 400)

\* new Date(year, month - 1, day) for a year the constructor takes as it is.
DayCount(y, month, day) == DaysBeforeYear(y) + DaysBeforeMonth(y, month) + day - 1

\* The time value of new Date(year, month - 1, day), as a count of local
\* calendar days from 0000-01-01.  Years 0..99 are taken as 1900..1999.
NewDate(year, month, day) ==
    DayCount(IF year \in 0..99 THEN 1900 + year ELSE year, month, day)

\* getFullYear of a day count
FullYear(n) ==
    CHOOSE y \in (n \div 366)..((n \div 365) + 1) :
        DaysBeforeYear(y) <= n /\ n < DaysBeforeYear(y + 1)

\* The month (1-12) of day r (from 0) of year y
MonthInYear(y, r) ==
    CHOOSE m \in 1..12 : DaysBeforeMonth(y, m) <= r /\ r < DaysBeforeMonth(y, m + 1)

\* The calendar date of day r (from 0) of year y
CivilInMonth(y, m, r) == [y |-> y, m |-> m, d |-> r - DaysBeforeMonth(y, m) + 1]
CivilInYear(y, r) == CivilInMonth(y, MonthInYear(y, r), r)

\* getFullYear, getMonth() + 1 and getDate of a day count, as [y, m, d]
CivilOfYear(n, y) == CivilInYear(y, n - DaysBeforeYear(y))
Civil(n) == CivilOfYear(n, FullYear(n))

\* getDay: 0 = Sunday .. 6 = Saturday (0000-01-01 is a Saturday).
GetDay(n) == (n + 6) % 7

\* d2.setDate(d2.getDate() - d2.getDay() + 1)
WeekShift(n) == n - GetDay(n) + 1

\* getISOWeekKey(d): the string `${y}-${m}-${day}` of d2, kept as its three
\* numbers (WeekKeyStr renders it).
getISOWeekKey(n) == Civil(WeekShift(n))

WeekKeyStr(w) == NatToStr(w.y) \o <<"-">> \o Pad2(w.m) \o <<"-">> \o Pad2(w.d)

NoDate == [ok |-> FALSE, threw |-> FALSE, year |-> 0, month |-> 0, day |-> 0,
           date |-> 0, dayOfWeek |-> 0, weekKey |-> [y |-> 0, m |-> 0, d |-> 0]]
\* parseDate ended by a TypeError instead of returning.
DateThrown == [NoDate EXCEPT !.threw = TRUE]

\* The returned object without the round-trip check.
ParsedUnchecked(year, month, day, d, c) ==
    [ok |-> TRUE, threw |-> FALSE, year |-> year, month |-> month, day |-> day,
     date |-> d, dayOfWeek |-> GetDay(d), weekKey |-> getISOWeekKey(d)]

\* The round-trip check on the constructed date d (c is its calendar date)
\* and the returned object.
ParsedChecked(year, month, day, d, c) ==
    IF c.d # day \/ c.m # month THEN NoDate
    ELSE [ok |-> TRUE, threw |-> FALSE, year |-> year, month |-> month, day |-> day,
          date |-> d, dayOfWeek |-> GetDay(d), weekKey |-> getISOWeekKey(d)]

ParsedDate(year, month, day, d) == ParsedChecked(year, month, day, d, Civil(d))

\* The body shared by both branches of parseDate once the regex matched.
ParsedFrom(year, month, day) ==
    IF month < 1 \/ month > 12 \/ day < 1 \/ day > 31 THEN NoDate
    ELSE ParsedDate(year, month, day, NewDate(year, month, day))

\* The three captured groups of a match, read with parseInt.
MatchedDate(s, y1, y2, m1, m2, d1, d2) ==
    ParsedFrom(ParseInt(SubSeq(s, y1, y2)), ParseInt(SubSeq(s, m1, m2)),
               ParseInt(SubSeq(s, d1, d2)))

\* dateStr.trim(): a TypeError on a value that has no trim method.
TrimCall(v) == IF v.t = "string" THEN Str(Trim(v.s)) ELSE Thrown

\* parseDate on the trimmed string t.
ParseTrimmed(t) ==
    IF t.t = "throw" THEN DateThrown
    ELSE IF MatchDMY(t.s) THEN MatchedDate(t.s, 7, 10, 4, 5, 1, 2)
    ELSE IF MatchYMD(t.s) THEN MatchedDate(t.s, 1, 4, 6, 7, 9, 10)
    ELSE NoDate

\* parseDate without its typeof test.
parseDateUnguarded(v) == IF ~Truthy(v) THEN NoDate ELSE ParseTrimmed(TrimCall(v))

\* parseDate(dateStr); NoDate stands for the returned null.
parseDate(v) ==
    IF ~Truthy(v) \/ v.t # "string" THEN NoDate ELSE ParseTrimmed(TrimCall(v))

\* ------------------------------------------------------------ numbers

\* Number.MAX_VALUE at the model's scale: a finite product beyond it is
\* +/-Infinity, as in IEEE 754 double arithmetic.
NumMax == 30000

Abs(i) == IF i < 0 THEN -i ELSE i

\* floor(a / b) for b # 0
FloorDiv(a, b) == IF b > 0 THEN a \div b ELSE (-a) \div (-b)

\* Math.floor(a / b) in the place of Math.round.
MathFloorDiv(a, b) == FloorDiv(a, b)

\* a / b rounded to the nearest integer, a tie going away from zero.
RoundHalfAwayDiv(a, b) ==
    IF (a >= 0) = (b > 0) THEN FloorDiv(2 * a + b, 2 * b) ELSE -FloorDiv(b - 2 * a, 2 * b)

\* Math.round(a / b) for integers a, b # 0: the nearest integer, a tie going
\* to the larger one (toward +Infinity).
MathRoundDiv(a, b) == FloorDiv(2 * a + b, 2 * b)

\* Number.isFinite(v)
IsFinite(v) == v.t = "number"

\* The Number a numeric string denotes: decimal digits with an optional
\* sign, surrounding whitespace ignored, "" is 0, anything else NaN.
StringToNumber(cs) ==
    LET s == Trim(cs)
        neg == s # <<>> /\ Head(s) = "-"
        ds == IF neg THEN Tail(s) ELSE s
    IN IF s = <<>> THEN Num(0)
       ELSE IF ds # <<>> /\ AllDigits(ds, 1, Len(ds))
            THEN Num(IF neg THEN -ParseInt(ds) ELSE ParseInt(ds))
            ELSE NaN

\* Number(v)
ToNumber(v) ==
    CASE v.t = "undefined" -> NaN
      [] v.t = "null" -> Num(0)
      [] v.t = "boolean" -> Num(v.n)
      [] v.t = "string" -> StringToNumber(v.s)
      [] v.t = "object" -> NaN
      [] OTHER -> v

\* a * b of two finite numbers
Mul(a, b) ==
    LET x == a.n * b.n
    IN IF x > NumMax THEN PosInf ELSE IF x < -NumMax THEN NegInf ELSE Num(x)

\* ------------------------------------------------------------ accessors

\* a ?? b
Coalesce(a, b) == IF a.t \in {"undefined", "null"} THEN b ELSE a

getQuantity(row) ==
    LET q == Coalesce(row.units, row.quantity)
        n == ToNumber(q)
    IN IF IsFinite(n) THEN n ELSE Num(0)

getRevenue(row) ==
    IF IsFinite(row.revenue) THEN row.revenue
    ELSE LET q == getQuantity(row)
             p == ToNumber(row.price)
         IN IF IsFinite(p) THEN Mul(q, p) ELSE Num(0)

\* ------------------------------------------------------------ growth

GrowthResult(pct, direction, text) ==
    [pct |-> pct, direction |-> direction, text |-> text]

\* computeGrowth(current, previous) for a finite current.  text is the
\* template with the number it interpolates.
computeGrowth(cur, prev) ==
    IF ~IsFinite(prev) \/ prev.n = 0
    THEN IF cur.n > 0
         THEN GrowthResult(100, "up", [k |-> "up from no prior sales", n |-> 0])
         ELSE GrowthResult(0, "flat", [k |-> "no change", n |-> 0])
    ELSE LET pct == MathRoundDiv((cur.n - prev.n) * 100, prev.n)
         IN IF pct > 0 THEN GrowthResult(pct, "up", [k |-> "up %", n |-> pct])
            ELSE IF pct < 0
            THEN GrowthResult(pct, "down", [k |-> "down %", n |-> Abs(pct)])
            ELSE GrowthResult(0, "flat", [k |-> "flat", n |-> 0])

\* ------------------------------------------------------------ names

LowerChars == <<"a", "b", "c", "d", "e", "f", "g", "h", "i", "j", "k", "l", "m",
                "n", "o", "p", "q", "r", "s", "t", "u", "v", "w", "x", "y", "z">>
UpperChars == <<"A", "B", "C", "D", "E", "F", "G", "H", "I", "J", "K", "L", "M",
                "N", "O", "P", "Q", "R", "S", "T", "U", "V", "W", "X", "Y", "Z">>

\* toUpperCase / toLowerCase of one character
ToUpperChar(c) ==
    IF \E i \in 1..26 : LowerChars[i] = c
    THEN UpperChars[CHOOSE i \in 1..26 : LowerChars[i] = c]
    ELSE c
ToLowerChar(c) ==
    IF \E i \in 1..26 : UpperChars[i] = c
    THEN LowerChars[CHOOSE i \in 1..26 : UpperChars[i] = c]
    ELSE c

\* String(v) of a value
ToStr(v) ==
    CASE v.t = "string" -> v.s
      [] v.t = "number" ->
            IF v.n < 0 THEN <<"-">> \o NatToStr(-v.n) ELSE NatToStr(v.n)
      [] v.t = "undefined" -> <<"u", "n", "d", "e", "f", "i", "n", "e", "d">>
      [] v.t = "null" -> <<"n", "u", "l", "l">>
      [] v.t = "NaN" -> <<"N", "a", "N">>
      [] v.t = "boolean" ->
            IF v.n = 1 THEN <<"t", "r", "u", "e">> ELSE <<"f", "a", "l", "s", "e">>
      [] v.t = "Infinity" ->
            (IF v.n < 0 THEN <<"-">> ELSE <<>>)
                \o <<"I", "n", "f", "i", "n", "i", "t", "y">>
      [] OTHER -> <<"[", "o", "b", "j", "e", "c", "t", " ",
                    "O", "b", "j", "e", "c", "t", "]">>

Unknown == <<"U", "n", "k", "n", "o", "w", "n">>
Uncategorized == <<"U", "n", "c", "a", "t", "e", "g", "o", "r", "i", "z", "e", "d">>

\* String(row.product ?? "").trim() || "Unknown"
productName(row) ==
    LET s == Trim(ToStr(Coalesce(row.product, Str(<<>>))))
    IN IF s = <<>> THEN Unknown ELSE s

\* normCat(c)
normCat(c) ==
    LET s == Trim(ToStr(Coalesce(c, Str(<<>>))))
    IN IF s = <<>> THEN <<>>
       ELSE <<ToUpperChar(s[1])>> \o [i \in 1..(Len(s) - 1) |-> ToLowerChar(s[i + 1])]

\* `${parsed.year}-${String(parsed.month).padStart(2, "0")}`
MonthKeyStr(year, month) == NatToStr(year) \o <<"-">> \o Pad2(month)

\* UTF-16 code unit order of the characters that occur in period keys.
CodeUnit(c) == IF c = "-" THEN 45 ELSE 48 + DigitVal(c)

\* a < b as strings (the order of Array.prototype.sort without a comparator)
RECURSIVE StrLess(_, _)
StrLess(a, b) ==
    IF b = <<>> THEN FALSE
    ELSE IF a = <<>> THEN TRUE
    ELSE IF Head(a) # Head(b) THEN CodeUnit(Head(a)) < CodeUnit(Head(b))
    ELSE StrLess(Tail(a), Tail(b))

\* The keys left in insertion order.
SortStringsKeepsOrder(ks) == ks

\* keys.sort() of a sequence of distinct strings
RECURSIVE SortStrings(_)
SortStrings(ks) ==
    IF ks = <<>> THEN <<>>
    ELSE LET i == CHOOSE i \in 1..Len(ks) :
                    \A j \in 1..Len(ks) : j = i \/ StrLess(ks[i], ks[j])
         IN <<ks[i]>> \o SortStrings(SubSeq(ks, 1, i - 1) \o SubSeq(ks, i + 1, Len(ks)))

\* names.join(", ")
RECURSIVE Join(_)
Join(names) ==
    IF names = <<>> THEN <<>>
    ELSE IF Len(names) = 1 THEN names[1]
    ELSE names[1] \o <<",", " ">> \o Join(Tail(names))

\* arr.slice(0, k)
Slice(arr, k) == SubSeq(arr, 1, IF Len(arr) < k THEN Len(arr) ELSE k)

\* ------------------------------------------------------------ aggregates

Front(arr) == SubSeq(arr, 1, Len(arr) - 1)
Last(arr) == arr[Len(arr)]
FirstIndex(S) == CHOOSE i \in S : \A j \in S : i <= j
Min(a, b) == IF a < b THEN a ELSE b

\* A Map kept as the sequence of its entries [key, revenue, quantity] in
\* insertion order; MapAdd is get-or-default, +=, set.
HasKey(map, key) == \E i \in 1..Len(map) : map[i].key = key
IndexOfKey(map, key) == CHOOSE i \in 1..Len(map) : map[i].key = key
\* A variant whose set stores the row's amounts instead of the sum.
MapAddOverwrite(map, key, rev, qty) ==
    IF HasKey(map, key)
    THEN [map EXCEPT ![IndexOfKey(map, key)] =
            [@ EXCEPT !.revenue = rev, !.quantity = qty]]
    ELSE Append(map, [key |-> key, revenue |-> rev, quantity |-> qty])
MapAdd(map, key, rev, qty) ==
    IF HasKey(map, key)
    THEN [map EXCEPT ![IndexOfKey(map, key)] =
            [@ EXCEPT !.revenue = @ + rev, !.quantity = @ + qty]]
    ELSE Append(map, [key |-> key, revenue |-> rev, quantity |-> qty])
\* map.get(key).revenue, or map.get(key) || 0 of a Map of numbers
MapGet(map, key) == IF HasKey(map, key) THEN map[IndexOfKey(map, key)].revenue ELSE 0
MapKeys(map) == [i \in 1..Len(map) |-> map[i].key]

\* The finite results of the accessors as integers.
Rev(row) == getRevenue(row).n
Qty(row) == getQuantity(row).n

\* The loop body of aggregateByMonth for a row with parsed date pd.
AddToMonth(byMonth, row, pd) ==
    IF ~pd.ok THEN byMonth
    ELSE MapAdd(byMonth, MonthKeyStr(pd.year, pd.month), Rev(row), Qty(row))

RECURSIVE aggregateByMonth(_)
aggregateByMonth(rs) ==
    IF rs = <<>> THEN <<>>
    ELSE AddToMonth(aggregateByMonth(Front(rs)), Last(rs), parseDate(Last(rs).date))

AddToWeek(byWeek, row, pd) ==
    IF ~pd.ok THEN byWeek
    ELSE MapAdd(byWeek, WeekKeyStr(pd.weekKey), Rev(row), Qty(row))

RECURSIVE aggregateByWeek(_)
aggregateByWeek(rs) ==
    IF rs = <<>> THEN <<>>
    ELSE AddToWeek(aggregateByWeek(Front(rs)), Last(rs), parseDate(Last(rs).date))

\* A variant that lets every row of a product overwrite its category.
AddToProductLastCategory(byProduct, row, name) ==
    IF \E i \in 1..Len(byProduct) : byProduct[i].product = name
    THEN [byProduct EXCEPT
            ![CHOOSE i \in 1..Len(byProduct) : byProduct[i].product = name] =
                [@ EXCEPT !.revenue = @ + Rev(row), !.quantity = @ + Qty(row),
                          !.category = normCat(row.category)]]
    ELSE Append(byProduct, [product |-> name, revenue |-> Rev(row),
                            quantity |-> Qty(row), category |-> normCat(row.category)])

AddToProduct(byProduct, row, name) ==
    IF \E i \in 1..Len(byProduct) : byProduct[i].product = name
    THEN [byProduct EXCEPT
            ![CHOOSE i \in 1..Len(byProduct) : byProduct[i].product = name] =
                [@ EXCEPT !.revenue = @ + Rev(row), !.quantity = @ + Qty(row)]]
    ELSE Append(byProduct, [product |-> name, revenue |-> Rev(row),
                            quantity |-> Qty(row), category |-> normCat(row.category)])

\* groupByProduct(rows): entries [product, revenue, quantity, category]
RECURSIVE groupByProduct(_)
groupByProduct(rs) ==
    IF rs = <<>> THEN <<>>
    ELSE AddToProduct(groupByProduct(Front(rs)), Last(rs), productName(Last(rs)))

\* normCat(row.category) || "Uncategorized"
OrUncategorized(c) == IF c = <<>> THEN Uncategorized ELSE c
categoryName(row) == OrUncategorized(normCat(row.category))

AddToCategory(byCat, row, cat) ==
    IF \E i \in 1..Len(byCat) : byCat[i].category = cat
    THEN [byCat EXCEPT ![CHOOSE i \in 1..Len(byCat) : byCat[i].category = cat] =
            [@ EXCEPT !.revenue = @ + Rev(row), !.quantity = @ + Qty(row)]]
    ELSE Append(byCat, [category |-> cat, revenue |-> Rev(row), quantity |-> Qty(row)])

\* groupByCategory(rows): entries [category, revenue, quantity]
RECURSIVE groupByCategory(_)
groupByCategory(rs) ==
    IF rs = <<>> THEN <<>>
    ELSE AddToCategory(groupByCategory(Front(rs)), Last(rs), categoryName(Last(rs)))

\* Insert x behind the k entries of sorted that do not sort after it.
InsertAt(sorted, x, k) == SubSeq(sorted, 1, k) \o <<x>> \o SubSeq(sorted, k + 1, Len(sorted))

\* [...arr].sort((a, b) => b.revenue - a.revenue): a stable sort, so equal
\* revenues keep their order in arr.
\* A variant that leaves the entries in their order in arr.
InsertByRevenueLast(sorted, x) == Append(sorted, x)

InsertByRevenue(sorted, x) ==
    InsertAt(sorted, x, Cardinality({i \in 1..Len(sorted) : sorted[i].revenue >= x.revenue}))
RECURSIVE SortByRevenueDesc(_)
SortByRevenueDesc(arr) ==
    IF arr = <<>> THEN <<>> ELSE InsertByRevenue(SortByRevenueDesc(Front(arr)), Last(arr))

\* [...arr].sort((a, b) => b.quantity - a.quantity)
InsertByQuantity(sorted, x) ==
    InsertAt(sorted, x, Cardinality({i \in 1..Len(sorted) : sorted[i].quantity >= x.quantity}))
RECURSIVE SortByQuantityDesc(_)
SortByQuantityDesc(arr) ==
    IF arr = <<>> THEN <<>> ELSE InsertByQuantity(SortByQuantityDesc(Front(arr)), Last(arr))

RECURSIVE SumRevenue(_)
SumRevenue(arr) == IF arr = <<>> THEN 0 ELSE arr[1].revenue + SumRevenue(Tail(arr))

\* rows.reduce((sum, r) => sum + getRevenue(r), 0)
RECURSIVE totalRevenue(_)
totalRevenue(rs) == IF rs = <<>> THEN 0 ELSE Rev(rs[1]) + totalRevenue(Tail(rs))

\* rows.reduce((sum, r) => sum + getQuantity(r), 0)
RECURSIVE totalQuantity(_)
totalQuantity(rs) == IF rs = <<>> THEN 0 ELSE Qty(rs[1]) + totalQuantity(Tail(rs))

\* catMonthMap: `${normCat(r.category)}__${year}-${month}` -> revenue
AddToCatMonth(cm, r, pd) ==
    IF ~pd.ok THEN cm
    ELSE MapAdd(cm, normCat(r.category) \o <<"_", "_">> \o MonthKeyStr(pd.year, pd.month),
                Rev(r), 0)
RECURSIVE catMonthMap(_)
catMonthMap(rs) ==
    IF rs = <<>> THEN <<>>
    ELSE AddToCatMonth(catMonthMap(Front(rs)), Last(rs), parseDate(Last(rs).date))

\* useWeekly ? parsed.weekKey : `${year}-${month}`
periodKey(weekly, pd) ==
    IF weekly THEN WeekKeyStr(pd.weekKey) ELSE MonthKeyStr(pd.year, pd.month)

\* productPeriods: name -> Set of period keys, names in insertion order.
AddPeriod(pp, name, key) ==
    IF \E i \in 1..Len(pp) : pp[i].key = name
    THEN [pp EXCEPT ![CHOOSE i \in 1..Len(pp) : pp[i].key = name].periods = @ \cup {key}]
    ELSE Append(pp, [key |-> name, periods |-> {key}])
AddToProductPeriods(pp, r, pd, weekly) ==
    IF ~pd.ok THEN pp ELSE AddPeriod(pp, productName(r), periodKey(weekly, pd))
RECURSIVE productPeriods(_, _)
productPeriods(rs, weekly) ==
    IF rs = <<>> THEN <<>>
    ELSE AddToProductPeriods(productPeriods(Front(rs), weekly), Last(rs),
                             parseDate(Last(rs).date), weekly)

\* byProdPeriod: `${name}__${periodKey}` -> revenue
AddToProdPeriod(bpp, r, pd, weekly) ==
    IF ~pd.ok THEN bpp
    ELSE MapAdd(bpp, productName(r) \o <<"_", "_">> \o periodKey(weekly, pd), Rev(r), 0)
RECURSIVE byProdPeriod(_, _)
byProdPeriod(rs, weekly) ==
    IF rs = <<>> THEN <<>>
    ELSE AddToProdPeriod(byProdPeriod(Front(rs), weekly), Last(rs),
                         parseDate(Last(rs).date), weekly)

\* byDay: dayOfWeek -> revenue; byMonthOnly: month (1-12) -> revenue
AddToSeason(days, months, r, pd) ==
    IF ~pd.ok THEN [days |-> days, months |-> months]
    ELSE [days |-> MapAdd(days, pd.dayOfWeek, Rev(r), 0),
          months |-> MapAdd(months, pd.month, Rev(r), 0)]
AddRowToSeason(acc, r) == AddToSeason(acc.days, acc.months, r, parseDate(r.date))
RECURSIVE seasonMaps(_)
seasonMaps(rs) ==
    IF rs = <<>> THEN [days |-> <<>>, months |-> <<>>]
    ELSE AddRowToSeason(seasonMaps(Front(rs)), Last(rs))

\* Everything generateInsights derives from rows before it looks at the
\* rules: the locals of the function, each computed as the code computes it.
SortedKeys(map) == SortStrings(MapKeys(map))

Periods(rs, ag, mk) ==
    [productPeriods |-> productPeriods(rs, Len(mk) < 2),
     byProdPeriod |-> byProdPeriod(rs, Len(mk) < 2),
     useWeekly |-> Len(mk) < 2,
     monthKeys |-> mk,
     weekKeys |-> SortedKeys(ag.byWeek)]

Aggregates(rs) ==
    [totalRevenue |-> totalRevenue(rs),
     totalQuantity |-> totalQuantity(rs),
     byMonth |-> aggregateByMonth(rs),
     byWeek |-> aggregateByWeek(rs),
     byProduct |-> groupByProduct(rs),
     byCategory |-> groupByCategory(rs),
     catMonthMap |-> catMonthMap(rs),
     season |-> seasonMaps(rs)]

Merge(ag, pe) ==
    [totalRevenue |-> ag.totalRevenue, totalQuantity |-> ag.totalQuantity,
     byMonth |-> ag.byMonth, byWeek |-> ag.byWeek, byProduct |-> ag.byProduct,
     byRevenue |-> SortByRevenueDesc(ag.byProduct),
     byQty |-> SortByQuantityDesc(ag.byProduct),
     byCategory |-> ag.byCategory, catMonthMap |-> ag.catMonthMap,
     byDay |-> ag.season.days, byMonthOnly |-> ag.season.months,
     productPeriods |-> pe.productPeriods, byProdPeriod |-> pe.byProdPeriod,
     useWeekly |-> pe.useWeekly, monthKeys |-> pe.monthKeys, weekKeys |-> pe.weekKeys]

WithPeriods(rs, ag) == Merge(ag, Periods(rs, ag, SortedKeys(ag.byMonth)))

\* The aggregates kept from one call to the next instead of rebuilt: a
\* second call adds the rows to what the first call accumulated.
LocalsCarriedOver(rs) ==
    IF callNo > 1 THEN WithPeriods(rs \o rs, Aggregates(rs \o rs))
    ELSE WithPeriods(rs, Aggregates(rs))

Locals(rs) == WithPeriods(rs, Aggregates(rs))

\* ------------------------------------------------------------ messages

\* A sentence of the result: its template k, the template of an embedded
\* growth text t, the characters s and the numbers n it interpolates.  Two
\* sentences are the same string exactly when the four agree (month and day
\* names stand as their numbers, formatted amounts as the rounded integer).
Msg(k, t, s, n) == [k |-> k, t |-> t, s |-> s, n |-> n]

\* What one step appends to findings, actions and warnings.
Out(f, a, w) == [f |-> f, a |-> a, w |-> w]
Nothing == Out(<<>>, <<>>, <<>>)
SeqIf(c, x) == IF c THEN <<x>> ELSE <<>>

\* formatCurrency(a / b) for b > 0: no fraction digits.
formatCurrency(a, b) == MathRoundDiv(a, b)

\* ------------------------------------------------------------ step 1

\* `${r.date}-${r.product}-${r.category}-${q}-${p}`
DupKey(r) ==
    ToStr(r.date) \o <<"-">> \o ToStr(r.product) \o <<"-">> \o ToStr(r.category)
        \o <<"-">> \o ToStr(getQuantity(r)) \o <<"-">> \o ToStr(ToNumber(r.price))
DupKeys(rs) == [i \in 1..Len(rs) |-> DupKey(rs[i])]

IsMissingDate(r) == ~Truthy(r.date) \/ ~parseDate(r.date).ok
IsInvalidQty(r) ==
    Qty(r) <= 0 /\ (r.units.t # "undefined" \/ r.quantity.t # "undefined")
IsNegative(p) == IsFinite(p) /\ p.n < 0
IsInvalidPrice(r) == IsNegative(ToNumber(r.price))
SeenBefore(keys, i) == \E j \in 1..(i - 1) : keys[j] = keys[i]
CountSeenBefore(keys) == Cardinality({i \in 1..Len(keys) : SeenBefore(keys, i)})

missingDates(rs) == Cardinality({i \in 1..Len(rs) : IsMissingDate(rs[i])})
invalidQty(rs) == Cardinality({i \in 1..Len(rs) : IsInvalidQty(rs[i])})
invalidPrice(rs) == Cardinality({i \in 1..Len(rs) : IsInvalidPrice(rs[i])})
duplicateCount(rs) == CountSeenBefore(DupKeys(rs))

\* A parseDate call of the data-quality loop ends in a TypeError.
QualityThrows(rs) ==
    \E i \in 1..Len(rs) : Truthy(rs[i].date) /\ parseDate(rs[i].date).threw

\* A variant that reports a count of zero as well.
CountWarningAlways(count, k) == <<Msg(k, "", <<>>, <<count>>)>>

CountWarning(count, k) == SeqIf(count > 0, Msg(k, "", <<>>, <<count>>))

StepQuality(rs) ==
    Out(<<>>, <<>>,
        CountWarning(missingDates(rs), "row(s) have missing or invalid dates")
        \o CountWarning(invalidQty(rs), "row(s) have zero or invalid quantity")
        \o CountWarning(invalidPrice(rs), "row(s) have negative price")
        \o CountWarning(duplicateCount(rs), "possible duplicate row(s)"))

\* ------------------------------------------------------------ step 2

\* parseInt(k.split("-")[1], 10) of a month key
MonthOfKey(k) == ParseInt(SubSeq(k, Len(k) - 1, Len(k)))

\* A variant that gives the promotion action whenever the direction is not up.
TrendActionUnlessUp(direction, up, down) ==
    SeqIf(direction = "up", Msg(up, "", <<>>, <<>>))
    \o SeqIf(direction # "up", Msg(down, "", <<>>, <<>>))

TrendAction(direction, up, down) ==
    SeqIf(direction = "up", Msg(up, "", <<>>, <<>>))
    \o SeqIf(direction = "down", Msg(down, "", <<>>, <<>>))

WeeklyTrend(lastRev, prevRev, g) ==
    Out(<<Msg("Revenue is .. this week vs last week", g.text.k, <<>>,
              <<g.text.n, formatCurrency(lastRev, 1), formatCurrency(prevRev, 1)>>)>>,
        TrendAction(g.direction,
                    "Keep up the momentum; consider restocking best sellers.",
                    "Check if stock ran out or demand dipped; promote top products."),
        <<>>)

MonthlyTrend(lastKey, prevKey, lastRev, prevRev, g) ==
    Out(<<Msg("Revenue is .. in .. vs ..", g.text.k, <<>>,
              <<g.text.n, MonthOfKey(lastKey), MonthOfKey(prevKey),
                formatCurrency(lastRev, 1), formatCurrency(prevRev, 1)>>)>>,
        TrendAction(g.direction,
                    "Keep stock levels healthy for your best sellers.",
                    "Focus on promoting your top 3 products or run a small promotion."),
        <<>>)

TrendOfWeeks(lastRev, prevRev) ==
    WeeklyTrend(lastRev, prevRev, computeGrowth(Num(lastRev), Num(prevRev)))
TrendOfMonths(lastKey, prevKey, lastRev, prevRev) ==
    MonthlyTrend(lastKey, prevKey, lastRev, prevRev,
                 computeGrowth(Num(lastRev), Num(prevRev)))

TrendOf(mk, wk, byMonth, byWeek) ==
    IF Len(mk) < 2 /\ Len(mk) = 0
    THEN IF Len(wk) >= 2
         THEN TrendOfWeeks(MapGet(byWeek, wk[Len(wk)]), MapGet(byWeek, wk[Len(wk) - 1]))
         ELSE Nothing
    ELSE IF Len(mk) >= 2
    THEN TrendOfMonths(mk[Len(mk)], mk[Len(mk) - 1],
                       MapGet(byMonth, mk[Len(mk)]), MapGet(byMonth, mk[Len(mk) - 1]))
    ELSE Nothing

StepTrend(c) == TrendOf(c.monthKeys, c.weekKeys, c.byMonth, c.byWeek)

\* ------------------------------------------------------------ steps 3, 4, 5

ProductNames(ps) == [i \in 1..Len(ps) |-> ps[i].product]

TopProducts3(top3Revenue, top3Qty, totRev) ==
    Out(SeqIf(Len(top3Revenue) > 0,
              Msg("Top 3 products by revenue", "", Join(ProductNames(top3Revenue)), <<>>))
        \o SeqIf(Len(top3Qty) > 0 /\ totRev > 0,
              Msg("Top 3 products by units sold", "", Join(ProductNames(top3Qty)), <<>>)),
        SeqIf(Len(top3Revenue) > 0,
              Msg("Restock and promote", "", top3Revenue[1].product, <<>>)),
        <<>>)

StepTopProducts(c) == TopProducts3(Slice(c.byRevenue, 3), Slice(c.byQty, 3), c.totalRevenue)

\* A variant without the test p.revenue > 0.
IsMismatchAnyRevenue(p, totRev, totQty) ==
    /\ totQty > 0 /\ 100 * p.quantity >= 15 * totQty
    /\ (totRev > 0 => 100 * p.revenue < 5 * totRev)

\* qtyShare >= 15 && revShare < 5 && p.revenue > 0, with the shares as the
\* code computes them (0 when the total is not positive)
IsMismatch(p, totRev, totQty) ==
    /\ totQty > 0 /\ 100 * p.quantity >= 15 * totQty
    /\ (totRev > 0 => 100 * p.revenue < 5 * totRev)
    /\ p.revenue > 0

MismatchOut(p, totRev, totQty) ==
    Out(<<Msg("sells a lot but brings in only", "", p.product,
              <<MathRoundDiv(100 * p.quantity, totQty),
                IF totRev > 0 THEN MathRoundDiv(100 * p.revenue, totRev) ELSE 0>>)>>,
        <<Msg("Review price or bundles for", "", p.product, <<>>)>>,
        <<>>)

MismatchAmong(byProduct, hits, totRev, totQty) ==
    IF hits = {} THEN Nothing ELSE MismatchOut(byProduct[FirstIndex(hits)], totRev, totQty)

MismatchIn(byProduct, totRev, totQty) ==
    MismatchAmong(byProduct,
                  {i \in 1..Len(byProduct) : IsMismatch(byProduct[i], totRev, totQty)},
                  totRev, totQty)

StepMismatch(c) == MismatchIn(c.byProduct, c.totalRevenue, c.totalQuantity)

CategoryLeaderOut(topCat) ==
    Out(<<Msg("is your top category", "", topCat.category,
              <<formatCurrency(topCat.revenue, 1)>>)>>,
        <<Msg("Focus on category", "", topCat.category, <<>>)>>,
        <<>>)

StepCategoryLeader(c) ==
    IF Len(c.byCategory) > 0
    THEN CategoryLeaderOut(SortByRevenueDesc(c.byCategory)[1])
    ELSE Nothing

\* ------------------------------------------------------------ step 6

NoCat == [cat |-> <<>>, last |-> 0, prev |-> 0]

\* One pass of the cats.forEach body: f and d are the fastest and the
\* declining category so far, me the category at hand, each with its last
\* and prev revenue.  g is (last - prev) / prev * 100; with prev > 0 two g
\* are compared by cross-multiplication.
CatVisit(f, d, me) ==
    IF me.prev > 0
    THEN [fastest |->
            IF /\ f.cat = <<>> \/ (me.last - me.prev) * f.prev > (f.last - f.prev) * me.prev
               /\ me.last > me.prev
            THEN me ELSE f,
          declining |->
            IF /\ d.cat = <<>> \/ (me.last - me.prev) * d.prev < (d.last - d.prev) * me.prev
               /\ me.last < me.prev
            THEN me ELSE d]
    ELSE [fastest |-> f, declining |-> d]

CatVisitNext(acc, me) == CatVisit(acc.fastest, acc.declining, me)

RECURSIVE CatScan(_, _, _, _)
CatScan(cats, cm, lastKey, prevKey) ==
    IF cats = <<>> THEN [fastest |-> NoCat, declining |-> NoCat]
    ELSE CatVisitNext(CatScan(Front(cats), cm, lastKey, prevKey),
                      [cat |-> Last(cats),
                       last |-> MapGet(cm, Last(cats) \o <<"_", "_">> \o lastKey),
                       prev |-> MapGet(cm, Last(cats) \o <<"_", "_">> \o prevKey)])

CategoryGrowthOut(f, d, emitF, emitD) ==
    Out(SeqIf(emitF, Msg("is your fastest-growing category", "", f.cat,
                         <<IF emitF THEN MathRoundDiv((f.last - f.prev) * 100, f.prev)
                           ELSE 0>>))
        \o SeqIf(emitD, Msg("revenue is down % vs last period", "", d.cat,
                         <<IF emitD THEN MathRoundDiv((d.prev - d.last) * 100, d.prev)
                           ELSE 0>>)),
        SeqIf(emitF, Msg("Promote - it is growing", "", f.cat, <<>>))
        \o SeqIf(emitD, Msg("Check why is declining", "", d.cat, <<>>)),
        <<>>)

CategoryGrowthOf(f, d) ==
    CategoryGrowthOut(f, d, f.cat # <<>>,
                      d.cat # <<>> /\ (d.last - d.prev) * 100 < (-10) * d.prev)

CategoryGrowthScan(scan) == CategoryGrowthOf(scan.fastest, scan.declining)

CategoryNames(byCategory) == [i \in 1..Len(byCategory) |-> byCategory[i].category]

StepCategoryGrowth(c) ==
    IF Len(c.monthKeys) >= 2
    THEN CategoryGrowthScan(CatScan(CategoryNames(c.byCategory), c.catMonthMap,
                                    c.monthKeys[Len(c.monthKeys)],
                                    c.monthKeys[Len(c.monthKeys) - 1]))
    ELSE Nothing

\* ------------------------------------------------------------ step 7

CONCENTRATION_WARN_PCT == 60

\* A variant that warns only when the rounded top-3 percentage exceeds 60.
ConcentrationOutAboveOnly(pct1, pct3) ==
    Out(<<Msg("% of revenue comes from your top product; % from the top 3",
              "", <<>>, <<pct1, pct3>>)>>,
        SeqIf(pct3 > CONCENTRATION_WARN_PCT,
              Msg("Try to grow sales of other products", "", <<>>, <<>>)),
        SeqIf(pct3 > CONCENTRATION_WARN_PCT,
              Msg("Over % of revenue depends on 3 products", "", <<>>, <<pct3>>)))

ConcentrationOut(pct1, pct3) ==
    Out(<<Msg("% of revenue comes from your top product; % from the top 3",
              "", <<>>, <<pct1, pct3>>)>>,
        SeqIf(pct3 >= CONCENTRATION_WARN_PCT,
              Msg("Try to grow sales of other products", "", <<>>, <<>>)),
        SeqIf(pct3 >= CONCENTRATION_WARN_PCT,
              Msg("Over % of revenue depends on 3 products", "", <<>>, <<pct3>>)))

\* A variant that cuts the percentages off instead of rounding them.
ConcentrationOfFloor(top3, tot) ==
    ConcentrationOut(MathFloorDiv(top3[1].revenue * 100, tot),
                     MathFloorDiv(SumRevenue(top3) * 100, tot))

ConcentrationOf(top3, tot) ==
    ConcentrationOut(MathRoundDiv(top3[1].revenue * 100, tot),
                     MathRoundDiv(SumRevenue(top3) * 100, tot))

StepConcentration(c) ==
    IF c.totalRevenue > 0 /\ Len(c.byRevenue) > 0
    THEN ConcentrationOf(Slice(c.byRevenue, 3), c.totalRevenue)
    ELSE Nothing

\* ------------------------------------------------------------ steps 8, 9

\* useWeekly ? new Set(rows.map(weekKey).filter(Boolean)).size : monthKeys.length
periodCount(c) == IF c.useWeekly THEN Len(c.weekKeys) ELSE Len(c.monthKeys)

SteadyOut(name) ==
    Out(<<Msg("sells in many periods - steady demand", "", name, <<>>)>>,
        <<Msg("Keep in stock; reorder before you run out", "", name, <<>>)>>,
        <<>>)

SteadyAmong(pp, consistent) ==
    IF consistent = {} THEN Nothing ELSE SteadyOut(pp[FirstIndex(consistent)].key)

SteadyIn(pp, pcount) ==
    IF pcount >= 2
    THEN SteadyAmong(pp, {i \in 1..Len(pp) : Cardinality(pp[i].periods) >= Min(3, pcount)})
    ELSE Nothing

StepSteadyDemand(c) == SteadyIn(c.productPeriods, periodCount(c))

\* productPeriods.get(name)?.size ?? 0
PeriodsOfProduct(pp, name) ==
    IF \E i \in 1..Len(pp) : pp[i].key = name
    THEN Cardinality(pp[CHOOSE i \in 1..Len(pp) : pp[i].key = name].periods)
    ELSE 0

\* A variant with the threshold of twice the average.
IsSpikeTwice(p, periods, lastRev) ==
    periods > 0 /\ p.revenue > 0 /\ periods * lastRev >= 2 * p.revenue

\* avgRev > 0 && lastRev >= avgRev * 1.5 with avgRev = p.revenue / periods
IsSpike(p, periods, lastRev) ==
    periods > 0 /\ p.revenue > 0 /\ 2 * periods * lastRev >= 3 * p.revenue

SpikeOut(p) ==
    Out(<<Msg("had a recent spike in sales", "", p.product, <<>>)>>,
        <<Msg("Restock to avoid running out", "", p.product, <<>>)>>,
        <<>>)

SpikeAmong(byProduct, hits) ==
    IF hits = {} THEN Nothing ELSE SpikeOut(byProduct[FirstIndex(hits)])

SpikeIn(c, lastPeriod) ==
    SpikeAmong(c.byProduct,
               {i \in 1..Len(c.byProduct) :
                    IsSpike(c.byProduct[i],
                            IF c.useWeekly
                            THEN PeriodsOfProduct(c.productPeriods, c.byProduct[i].product)
                            ELSE Len(c.monthKeys),
                            MapGet(c.byProdPeriod,
                                   c.byProduct[i].product \o <<"_", "_">> \o lastPeriod))})

StepRecentSpike(c) ==
    IF Len(c.monthKeys) >= 2 \/ (c.useWeekly /\ Len(c.weekKeys) >= 2)
    THEN SpikeIn(c, IF Len(c.monthKeys) >= 2 THEN Last(c.monthKeys) ELSE Last(c.weekKeys))
    ELSE Nothing

\* ------------------------------------------------------------ step 10

BestDayOut(showDay, day) ==
    Out(SeqIf(showDay, Msg("Your best day for sales is", "", <<>>, <<day>>)),
        SeqIf(showDay, Msg("Schedule promotions or extra stock for", "", <<>>, <<day>>)),
        <<>>)
BestMonthOut(showMonth, month) ==
    Out(SeqIf(showMonth, Msg("Your best month for sales is", "", <<>>, <<month>>)),
        <<>>, <<>>)
BestKey(map) == IF map = <<>> THEN 0 ELSE SortByRevenueDesc(map)[1].key
Both(x, y) == Out(x.f \o y.f, x.a \o y.a, x.w \o y.w)

StepSeasonality(c) ==
    Both(BestDayOut(Len(c.byDay) >= 3, BestKey(c.byDay)),
         BestMonthOut(Len(c.byMonthOnly) >= 3, BestKey(c.byMonthOnly)))

\* ------------------------------------------------------------ step 11

\* ANOMALY_CHANGE_THRESHOLD is 0.5: x >= 0.5 is stated as 2 x >= 1.
ANOMALY_STD_THRESHOLD == 2

RECURSIVE SumValues(_)
SumValues(vs) == IF vs = <<>> THEN 0 ELSE vs[1] + SumValues(Tail(vs))

\* periodValues.map(p => p.value).filter(v => Number.isFinite(v) && v >= 0)
\* A variant whose filter keeps the negative values.
RECURSIVE ValidValuesKeepsNegative(_)
ValidValuesKeepsNegative(pvs) ==
    IF pvs = <<>> THEN <<>>
    ELSE SeqIf(IsFinite(pvs[1].value), pvs[1].value.n) \o ValidValuesKeepsNegative(Tail(pvs))

RECURSIVE ValidValues(_)
ValidValues(pvs) ==
    IF pvs = <<>> THEN <<>>
    ELSE SeqIf(IsFinite(pvs[1].value) /\ pvs[1].value.n >= 0, pvs[1].value.n)
         \o ValidValues(Tail(pvs))

Square(x) == x * x
SquaredDeviations(values, k, S) == [i \in 1..k |-> Square(k * values[i] - S)]

\* One entry of detectAnomalies.  With k valid values of sum S, avg = S / k
\* and variance = D / k^3 for D the sum of (k v_i - S)^2; dev is k v - S, so
\*   value > avg       iff  dev > 0
\*   pctChange >= 0.5  iff  S # 0 and 2 |dev| >= |S|
\*   z >= 2            iff  D > 0, dev >= 0 and k dev^2 >= 4 D
\*   z <= -2           iff  D > 0, dev <= 0 and k dev^2 >= 4 D
AnomalyClass(dev, k, S, D) ==
    IF dev > 0 /\ \/ (S # 0 /\ 2 * Abs(dev) >= Abs(S))
                  \/ (D > 0 /\ k * Square(dev) >= Square(ANOMALY_STD_THRESHOLD) * D)
    THEN "spike"
    ELSE IF dev < 0 /\ \/ (S # 0 /\ 2 * Abs(dev) >= Abs(S))
                       \/ (D > 0 /\ k * Square(dev) >= Square(ANOMALY_STD_THRESHOLD) * D)
    THEN "drop"
    ELSE "none"

AnomalyEntry(pv, k, S, D) ==
    [period |-> pv.period, value |-> pv.value.n, sum |-> S, count |-> k,
     type |-> AnomalyClass(k * pv.value.n - S, k, S, D)]

RECURSIVE AnomalyEntries(_, _, _, _)
AnomalyEntries(pvs, k, S, D) ==
    IF pvs = <<>> THEN <<>>
    ELSE AnomalyEntries(Front(pvs), k, S, D)
         \o SeqIf(/\ IsFinite(Last(pvs).value)
                  /\ AnomalyClass(k * Last(pvs).value.n - S, k, S, D) # "none",
                  AnomalyEntry(Last(pvs), k, S, D))

AnomaliesWithSum(pvs, values, S) ==
    AnomalyEntries(pvs, Len(values), S, SumValues(SquaredDeviations(values, Len(values), S)))

AnomaliesOver(pvs, values) ==
    IF Len(values) < 2 THEN <<>> ELSE AnomaliesWithSum(pvs, values, SumValues(values))

\* detectAnomalies(periodValues): entries [period, value, sum, count, type]
detectAnomalies(pvs) == AnomaliesOver(pvs, ValidValues(pvs))

\* The period labels: a month name (its number), or `Week ${weekKey}`.
periodValues(c) ==
    IF Len(c.monthKeys) >= 2
    THEN [i \in 1..Len(c.monthKeys) |->
            [period |-> [k |-> "month", s |-> <<>>, n |-> MonthOfKey(c.monthKeys[i])],
             value |-> Num(MapGet(c.byMonth, c.monthKeys[i]))]]
    ELSE [i \in 1..Len(c.weekKeys) |->
            [period |-> [k |-> "week", s |-> c.weekKeys[i], n |-> 0],
             value |-> Num(MapGet(c.byWeek, c.weekKeys[i]))]]

SpikeFinding(a) ==
    Msg("Unusual revenue spike in", a.period.k, a.period.s,
        <<a.period.n, formatCurrency(a.value, 1), formatCurrency(a.sum, a.count)>>)
DropWarning(a) == Msg("Revenue dropped in", a.period.k, a.period.s, <<a.period.n>>)

RECURSIVE AnomalyFindings(_)
AnomalyFindings(as) ==
    IF as = <<>> THEN <<>>
    ELSE SeqIf(as[1].type = "spike", SpikeFinding(as[1])) \o AnomalyFindings(Tail(as))

RECURSIVE AnomalyWarnings(_)
AnomalyWarnings(as) ==
    IF as = <<>> THEN <<>>
    ELSE SeqIf(as[1].type = "drop", DropWarning(as[1])) \o AnomalyWarnings(Tail(as))

AnomaliesOut(as) == Out(AnomalyFindings(as), <<>>, AnomalyWarnings(as))

StepAnomalies(c) == AnomaliesOut(detectAnomalies(periodValues(c)))

\* ------------------------------------------------------------ step 12

\* [...new Set(arr)]
AddUnique(seen, x) ==
    IF \E i \in 1..Len(seen) : seen[i] = x THEN seen ELSE Append(seen, x)
\* uniq that keeps every entry.
uniqKeepsAll(arr) == arr

RECURSIVE uniq(_)
uniq(arr) == IF arr = <<>> THEN <<>> ELSE AddUnique(uniq(Front(arr)), Last(arr))

MaxFindings == 6
MaxActions == 5

\* A variant that returns the last six findings and five actions.
FinalizedFromEnd(f, a, w) ==
    [findings |-> SubSeq(uniq(f), Len(uniq(f)) - Min(Len(uniq(f)), MaxFindings) + 1,
                         Len(uniq(f))),
     actions |-> SubSeq(uniq(a), Len(uniq(a)) - Min(Len(uniq(a)), MaxActions) + 1,
                        Len(uniq(a))),
     warnings |-> uniq(w)]

Finalized(f, a, w) ==
    [findings |-> Slice(uniq(f), MaxFindings),
     actions |-> Slice(uniq(a), MaxActions),
     warnings |-> uniq(w)]

\* ------------------------------------------------------------ inputs

Row(date, product, category, units, quantity, price, revenue) ==
    [date |-> date, product |-> product, category |-> category, units |-> units,
     quantity |-> quantity, price |-> price, revenue |-> revenue]

\* Rows as the dashboard holds them: date, product, category, units, price.
Sale(date, product, category, units, price) ==
    Row(Str(date), Str(product), Str(category), Num(units), Undefined, Num(price),
        Undefined)

D_01_01_2025 == <<"0", "1", "-", "0", "1", "-", "2", "0", "2", "5">>
D_05_01_2025 == <<"0", "5", "-", "0", "1", "-", "2", "0", "2", "5">>
D_2025_02_03 == <<"2", "0", "2", "5", "-", "0", "2", "-", "0", "3">>
D_15_01_2025 == <<"1", "5", "-", "0", "1", "-", "2", "0", "2", "5">>
D_10_01_2024 == <<"1", "0", "-", "0", "1", "-", "2", "0", "2", "4">>
D_15_06_2024 == <<"1", "5", "-", "0", "6", "-", "2", "0", "2", "4">>
D_31_02_2025 == <<"3", "1", "-", "0", "2", "-", "2", "0", "2", "5">>

\* Sales rows: two products tied in revenue, three months of which two are
\* Januaries, a row with no date, no units and a negative price.
SaleRows ==
    { Sale(D_01_01_2025, <<"A">>, <<"X">>, 2, 5),
      Sale(D_2025_02_03, <<"A">>, <<"x">>, 4, 5),
      [Sale(D_05_01_2025, <<"B">>, <<"Y">>, 1, 10) EXCEPT !.revenue = Num(10)],
      [Sale(D_10_01_2024, <<" ", "B">>, <<"Y">>, 0, 1) EXCEPT
            !.units = Undefined, !.quantity = Num(3)],
      Sale(<<>>, <<"C">>, <<>>, 0, -1),
      Sale(D_15_06_2024, <<"C">>, <<"X">>, 10, 10) }

\* Rows whose fields are absent, empty, non-numeric or of the wrong type; the
\* last has its price as the text of a negative number.
TypedRows ==
    { Row(Num(5), Undefined, Null, Str(<<"a", "b", "c">>), Undefined, Str(<<"x">>), NaN),
      Row(Undefined, Num(7), Obj, Undefined, Str(<<"3">>), Null, Str(<<"1", "0", "0">>)),
      Row(Str(D_31_02_2025), Str(<<" ">>), Str(<<" ", "x", " ">>), Num(-2), Undefined,
          Num(5), Undefined),
      Row(Obj, Bool(TRUE), Num(0), Bool(TRUE), Undefined, PosInf, PosInf),
      Sale(D_01_01_2025, <<"A">>, <<"X">>, 2, 5),
      [Sale(D_2025_02_03, <<"B">>, <<"Y">>, 0, 5) EXCEPT
            !.units = Null, !.quantity = Num(4), !.price = Str(<<"-", "5">>)] }

MaxRows == 3
MaxCalls == 2
MIN_ROWS_FOR_INSIGHTS == 3

RECURSIVE SeqsUpTo(_, _)
SeqsUpTo(S, n) ==
    IF n = 0 THEN {<<>>}
    ELSE LET shorter == SeqsUpTo(S, n - 1)
         IN shorter \cup {Append(q, x) : q \in {r \in shorter : Len(r) = n - 1}, x \in S}

\* ------------------------------------------------------------ generateInsights

NoResult == [called |-> FALSE, r |-> [findings |-> <<>>, actions |-> <<>>, warnings |-> <<>>]]
Returned(r) == [called |-> TRUE, r |-> r]

IdleDate == /\ dateIn = Undefined /\ parsed = [called |-> FALSE, r |-> NoDate]
IdleAcc ==
    /\ rowIn = Row(Undefined, Undefined, Undefined, Undefined, Undefined, Undefined,
                   Undefined)
    /\ qtyOut = [called |-> FALSE, r |-> Num(0)]
    /\ revOut = [called |-> FALSE, r |-> Num(0)]
IdleGrowth ==
    /\ current = Num(0) /\ previous = Num(0)
    /\ growth = [called |-> FALSE, r |-> GrowthResult(0, "flat", [k |-> "", n |-> 0])]
IdleGroup == /\ productRows = <<>> /\ grouped = [called |-> FALSE, r |-> <<>>]
IdleAnomaly == /\ periodValuesIn = <<>> /\ anomalies = [called |-> FALSE, r |-> <<>>]
NoTimer == [pending |-> FALSE, rows |-> <<>>]
IdleCard ==
    /\ cardRows = <<>> /\ insights = NoResult /\ loading = TRUE
    /\ timer = NoTimer /\ effectDue = FALSE
IdleImport ==
    /\ open = FALSE /\ isProcessing = FALSE /\ error = ""
    /\ session = 0 /\ files = 0 /\ reading = {} /\ closing = <<>> /\ pageRows = 0
IdlePipe ==
    /\ rows = [isArray |-> TRUE, items |-> <<>>]
    /\ rows0 = rows
    /\ pc = "idle" /\ callNo = 0
    /\ findings = <<>> /\ actions = <<>> /\ warnings = <<>>
    /\ result = NoResult /\ result1 = NoResult

\* The state before the first call on the given input.
InitPipe(inputs) ==
    /\ IdleDate /\ IdleAcc /\ IdleGrowth /\ IdleGroup /\ IdleAnomaly /\ IdleCard /\ IdleImport
    /\ rows \in inputs
    /\ rows0 = rows
    /\ pc = "idle" /\ callNo = 0
    /\ findings = <<>> /\ actions = <<>> /\ warnings = <<>>
    /\ result = NoResult /\ result1 = NoResult

Init == InitPipe({[isArray |-> TRUE, items |-> q] : q \in SeqsUpTo(SaleRows, MaxRows)})

InitTyped ==
    InitPipe({[isArray |-> b, items |-> q] :
                b \in BOOLEAN, q \in SeqsUpTo(TypedRows, MaxRows)})

\* Six rows of six products of one category, each with its revenue given.
\* The amounts are drawn non-increasing and dealt to the rows in a fixed
\* scrambled order, so that the top-3 share of revenue runs from 50 % (six
\* equal amounts) through exactly 60 % (five equal amounts and a zero) to
\* nearly 100 %, with shares just below 60 % (199 five times and 5: 59.7 %)
\* and just above (199, 198 four times and 0: 60.04 %); the units differ
\* from product to product.
ShareAmounts == {0, 5, 100, 198, 199}
ShareProducts == <<"A", "B", "C", "D", "E", "F">>
ShareOrder == <<4, 1, 6, 2, 5, 3>>
ShareUnits == <<3, 1, 2, 5, 1, 4>>
ShareRows(amounts) ==
    [i \in 1..6 |->
        [Sale(D_01_01_2025, <<ShareProducts[i]>>, <<"X">>, ShareUnits[i], 1)
            EXCEPT !.revenue = Num(amounts[ShareOrder[i]])]]
InitShare ==
    InitPipe({[isArray |-> TRUE, items |-> ShareRows(q)] :
                q \in {f \in [1..6 -> ShareAmounts] : \A i \in 1..5 : f[i] >= f[i + 1]}})

\* Three rows of one product dated in January and February 2025, with amounts
\* that make the later month lower by 0.5 % (199 after 200), lower than a
\* zero or negative month, or much lower; and a row dated two weeks after
\* the first, in the same month.
TrendAmounts == {-5, 0, 199, 200}
TrendRows ==
    {Sale(d, <<"A">>, <<"X">>, 1, a) : d \in {D_01_01_2025, D_2025_02_03}, a \in TrendAmounts}
    \cup {Sale(D_15_01_2025, <<"A">>, <<"X">>, 1, 199)}
InitTrend ==
    InitPipe({[isArray |-> TRUE, items |-> q] :
                q \in {r \in SeqsUpTo(TrendRows, 3) : Len(r) = 3}})

\* Four rows, two dated in January and two in February 2025, of the
\* categories X and none, with amounts that give changes of +100 %, +122 %,
\* +11 %, -10 % (10 to 9) and -50 %.
CategoryAmounts == {9, 10, 20}
CategoryRows(d) ==
    {Sale(d, <<"A">>, c, 1, a) : c \in {<<>>, <<"X">>}, a \in CategoryAmounts}
InitCategory ==
    InitPipe({[isArray |-> TRUE, items |-> <<r1, r2, r3, r4>>] :
                r1 \in CategoryRows(D_01_01_2025), r2 \in CategoryRows(D_01_01_2025),
                r3 \in CategoryRows(D_2025_02_03), r4 \in CategoryRows(D_2025_02_03)})

\* Three rows dated in December 999, January 2025 or February 2025.
D_0999_12_01 == <<"0", "9", "9", "9", "-", "1", "2", "-", "0", "1">>
KeyRows ==
    {Sale(d, <<"A">>, <<"X">>, 1, a) :
        d \in {D_0999_12_01, D_01_01_2025, D_2025_02_03}, a \in {10, 20}}
InitKeys ==
    InitPipe({[isArray |-> TRUE, items |-> q] :
                q \in {r \in SeqsUpTo(KeyRows, 3) : Len(r) = 3}})

\* Rows of one date, quantity and price whose product and category contain
\* the hyphen, next to a plain row.
HyphenRows ==
    { Sale(D_01_01_2025, <<"A", "-", "B">>, <<"C">>, 1, 5),
      Sale(D_01_01_2025, <<"A">>, <<"B", "-", "C">>, 1, 5),
      Sale(D_01_01_2025, <<"A">>, <<"X">>, 1, 5) }
InitDuplicates ==
    InitPipe({[isArray |-> TRUE, items |-> q] : q \in SeqsUpTo(HyphenRows, MaxRows)})

\* A row of product A in the first week of January 2025 followed by two rows
\* of A or B dated that week, two weeks later or in February, with a
\* negative, a small or a large amount.
RecentAmounts == {-5, 10, 30}
RecentChoices ==
    {Sale(d, <<n>>, <<"X">>, 1, a) :
        d \in {D_01_01_2025, D_15_01_2025, D_2025_02_03}, n \in {"A", "B"},
        a \in RecentAmounts}
InitRecent ==
    InitPipe({[isArray |-> TRUE,
               items |-> <<Sale(D_01_01_2025, <<"A">>, <<"X">>, 1, 10), r2, r3>>] :
                r2 \in RecentChoices, r3 \in RecentChoices})

\* Entry: the three local lists are created empty.
Call ==
    /\ pc \in {"idle", "done"} /\ callNo < MaxCalls
    /\ callNo' = callNo + 1
    /\ findings' = <<>> /\ actions' = <<>> /\ warnings' = <<>>
    /\ result' = NoResult
    /\ pc' = "gate"
    /\ UNCHANGED <<rows, rows0, result1, dateVars, accVars, growthVars, groupVars, anomalyVars,
                   cardVars, importVars>>

\* The gate without its Array.isArray test.
GateFiresOnLengthOnly(input) == Len(input.items) < MIN_ROWS_FOR_INSIGHTS

\* !Array.isArray(rows) || rows.length < MIN_ROWS_FOR_INSIGHTS
GateFires(input) == ~input.isArray \/ Len(input.items) < MIN_ROWS_FOR_INSIGHTS

Gate ==
    /\ pc = "gate"
    /\ IF GateFires(rows)
       THEN /\ result' = Returned([findings |-> findings, actions |-> actions,
                                   warnings |-> warnings])
            /\ result1' = IF callNo = 1 THEN result' ELSE result1
            /\ pc' = "done"
       ELSE /\ pc' = "quality"
            /\ UNCHANGED <<result, result1>>
    /\ UNCHANGED <<rows, rows0, callNo, findings, actions, warnings,
                   dateVars, accVars, growthVars, groupVars, anomalyVars,
                   cardVars, importVars>>

\* A variant that puts what the step produces in front of the lists.
StepPrepends(at, out, next) ==
    /\ pc = at
    /\ findings' = out.f \o findings
    /\ actions' = out.a \o actions
    /\ warnings' = out.w \o warnings
    /\ pc' = next
    /\ UNCHANGED <<rows, rows0, callNo, result, result1, dateVars, accVars, growthVars,
                   groupVars, anomalyVars, cardVars, importVars>>

\* One step of the pipeline: append what it produces, move to the next.
Step(at, out, next) ==
    /\ pc = at
    /\ findings' = findings \o out.f
    /\ actions' = actions \o out.a
    /\ warnings' = warnings \o out.w
    /\ pc' = next
    /\ UNCHANGED <<rows, rows0, callNo, result, result1, dateVars, accVars, growthVars,
                   groupVars, anomalyVars, cardVars, importVars>>

Quality ==
    /\ pc = "quality"
    /\ IF QualityThrows(rows.items)
       THEN /\ pc' = "threw"
            /\ UNCHANGED <<rows, rows0, callNo, findings, actions, warnings,
                           result, result1, dateVars, accVars, growthVars, groupVars, anomalyVars,
                   cardVars, importVars>>
       ELSE Step("quality", StepQuality(rows.items), "trend")

Trend == Step("trend", StepTrend(Locals(rows.items)), "top")
TopProducts == Step("top", StepTopProducts(Locals(rows.items)), "mismatch")
Mismatch == Step("mismatch", StepMismatch(Locals(rows.items)), "catLeader")
CategoryLeader == Step("catLeader", StepCategoryLeader(Locals(rows.items)), "catGrowth")
CategoryGrowth == Step("catGrowth", StepCategoryGrowth(Locals(rows.items)), "concentration")
Concentration == Step("concentration", StepConcentration(Locals(rows.items)), "steady")
SteadyDemand == Step("steady", StepSteadyDemand(Locals(rows.items)), "spike")
RecentSpike == Step("spike", StepRecentSpike(Locals(rows.items)), "season")
Seasonality == Step("season", StepSeasonality(Locals(rows.items)), "anomaly")
Anomalies == Step("anomaly", StepAnomalies(Locals(rows.items)), "finalize")

Finalize ==
    /\ pc = "finalize"
    /\ result' = Returned(Finalized(findings, actions, warnings))
    /\ result1' = IF callNo = 1 THEN result' ELSE result1
    /\ pc' = "done"
    /\ UNCHANGED <<rows, rows0, callNo, findings, actions, warnings,
                   dateVars, accVars, growthVars, groupVars, anomalyVars,
                   cardVars, importVars>>

Next ==
    \/ Call \/ Gate \/ Quality \/ Trend \/ TopProducts \/ Mismatch
    \/ CategoryLeader \/ CategoryGrowth \/ Concentration \/ SteadyDemand
    \/ RecentSpike \/ Seasonality \/ Anomalies \/ Finalize

Spec == Init /\ [][Next]_vars
SpecTyped == InitTyped /\ [][Next]_vars
SpecShare == InitShare /\ [][Next]_vars
SpecTrend == InitTrend /\ [][Next]_vars
SpecCategory == InitCategory /\ [][Next]_vars
SpecKeys == InitKeys /\ [][Next]_vars
SpecDuplicates == InitDuplicates /\ [][Next]_vars
SpecRecent == InitRecent /\ [][Next]_vars

\* ------------------------------------------------------------ parseDate alone

\* String(y).padStart(4, "0")
Pad4(y) ==
    IF y < 10 THEN <<"0", "0", "0">> \o NatToStr(y)
    ELSE IF y < 100 THEN <<"0", "0">> \o NatToStr(y)
    ELSE IF y < 1000 THEN <<"0">> \o NatToStr(y)
    ELSE NatToStr(y)

\* The two spellings of the numbers y, m, d.
SpellDMY(y, m, d) == Pad2(d) \o <<"-">> \o Pad2(m) \o <<"-">> \o Pad4(y)
SpellYMD(y, m, d) == Pad4(y) \o <<"-">> \o Pad2(m) \o <<"-">> \o Pad2(d)

DateYears == {0, 4, 99, 100, 1900, 2000, 2024, 2025, 9999}
DateMonths == {0, 1, 2, 4, 12, 13}
DateDays == (0..7) \cup (28..32)

\* Both spellings of every combination, dates that do not exist included.
SpelledDates ==
    {SpellDMY(y, m, d) : y \in DateYears, m \in DateMonths, d \in DateDays}
    \cup {SpellYMD(y, m, d) : y \in DateYears, m \in DateMonths, d \in DateDays}

\* A week of January 2025 in both spellings, to be padded and damaged.
SampleDates ==
    {SpellDMY(2025, 1, d) : d \in 1..7} \cup {SpellYMD(2025, 1, d) : d \in 1..7}

PaddedDates ==
    {<<" ">> \o cs : cs \in SampleDates} \cup {cs \o <<" ">> : cs \in SampleDates}
    \cup {<<"\t">> \o cs \o <<"\n">> : cs \in SampleDates}

MalformedDates ==
    {Tail(cs) : cs \in SampleDates} \cup {cs \o <<"x">> : cs \in SampleDates}
    \cup {[cs EXCEPT ![3] = "/"] : cs \in SampleDates}
    \cup {[cs EXCEPT ![1] = "a"] : cs \in SampleDates}
    \cup {<<"0">> \o cs : cs \in SampleDates}
    \cup {<<>>, <<" ">>, <<"a", "b", "c">>}

DateInputs ==
    {Str(cs) : cs \in SpelledDates \cup PaddedDates \cup MalformedDates}
    \cup {Undefined, Null, NaN, Num(0), Num(5), Bool(TRUE), Bool(FALSE), Obj}

InitDate ==
    /\ dateIn \in DateInputs
    /\ parsed = [called |-> FALSE, r |-> NoDate]
    /\ IdleAcc /\ IdleGrowth /\ IdlePipe /\ IdleGroup /\ IdleAnomaly /\ IdleCard /\ IdleImport

\* parsed = parseDate(dateIn)
ParseDateCall ==
    /\ ~parsed.called
    /\ parsed' = [called |-> TRUE, r |-> parseDate(dateIn)]
    /\ UNCHANGED <<dateIn, accVars, growthVars, pipeVars, groupVars, anomalyVars,
                   cardVars, importVars>>

NextDate == ParseDateCall
SpecDate == InitDate /\ [][NextDate]_vars

\* ------------------------------------------------------------ accessors alone

UnitsValues ==
    {Undefined, Null, Num(0), Num(3), Num(-2), Num(NumMax), Str(<<"4">>), Str(<<>>),
     Str(<<"a", "b", "c">>), NaN, PosInf, Bool(TRUE), Obj}
QuantityValues == {Undefined, Num(7), Str(<<"x">>), Str(<<" ", "6">>)}
PriceValues ==
    {Undefined, Null, Num(5), Num(-1), Num(NumMax), Str(<<"2">>), Str(<<"x">>), NaN,
     NegInf}
RevenueValues == {Undefined, Null, Num(100), Num(0), Str(<<"1", "0", "0">>), NaN, PosInf}

AccInputs ==
    {Row(Undefined, Undefined, Undefined, u, q, p, r) :
        u \in UnitsValues, q \in QuantityValues, p \in PriceValues, r \in RevenueValues}

InitAcc ==
    /\ rowIn \in AccInputs
    /\ qtyOut = [called |-> FALSE, r |-> Num(0)]
    /\ revOut = [called |-> FALSE, r |-> Num(0)]
    /\ IdleDate /\ IdleGrowth /\ IdlePipe /\ IdleGroup /\ IdleAnomaly /\ IdleCard /\ IdleImport

\* qtyOut = getQuantity(rowIn)
GetQuantityCall ==
    /\ ~qtyOut.called
    /\ qtyOut' = [called |-> TRUE, r |-> getQuantity(rowIn)]
    /\ UNCHANGED <<rowIn, revOut, dateVars, growthVars, pipeVars, groupVars, anomalyVars,
                   cardVars, importVars>>

\* revOut = getRevenue(rowIn)
GetRevenueCall ==
    /\ ~revOut.called
    /\ revOut' = [called |-> TRUE, r |-> getRevenue(rowIn)]
    /\ UNCHANGED <<rowIn, qtyOut, dateVars, growthVars, pipeVars, groupVars, anomalyVars,
                   cardVars, importVars>>

NextAcc == GetQuantityCall \/ GetRevenueCall
SpecAcc == InitAcc /\ [][NextAcc]_vars

\* ------------------------------------------------------------ computeGrowth alone

\* current and previous range over -GrowthMax..GrowthMax
GrowthMax == 8

\* The pairs of the unit tests, and two whose change is -2.5 % and +2.5 %.
GrowthExamples ==
    {<<Num(120), Num(100)>>, <<Num(80), Num(100)>>, <<Num(100), Num(100)>>,
     <<Num(10), Num(0)>>, <<Num(39), Num(40)>>, <<Num(41), Num(40)>>}

GrowthInputs ==
    {<<Num(a), Num(b)>> : a \in -GrowthMax..GrowthMax, b \in -GrowthMax..GrowthMax}
    \cup {<<Num(a), b>> : a \in -GrowthMax..GrowthMax, b \in {NaN, PosInf, NegInf}}
    \cup GrowthExamples

InitGrowth ==
    /\ \E pair \in GrowthInputs : current = pair[1] /\ previous = pair[2]
    /\ growth = [called |-> FALSE, r |-> GrowthResult(0, "flat", [k |-> "", n |-> 0])]
    /\ IdleDate /\ IdleAcc /\ IdlePipe /\ IdleGroup /\ IdleAnomaly /\ IdleCard /\ IdleImport

\* growth = computeGrowth(current, previous)
ComputeGrowthCall ==
    /\ ~growth.called
    /\ growth' = [called |-> TRUE, r |-> computeGrowth(current, previous)]
    /\ UNCHANGED <<current, previous, dateVars, accVars, pipeVars, groupVars, anomalyVars,
                   cardVars, importVars>>

NextGrowth == ComputeGrowthCall
SpecGrowth == InitGrowth /\ [][NextGrowth]_vars

\* ------------------------------------------------------------ groupByProduct

\* The rows of the groupByProduct unit test.
GroupTestRows ==
    { Sale(D_01_01_2025, <<"A">>, <<"X">>, 2, 10),
      Sale(D_05_01_2025, <<"A">>, <<"X">>, 3, 10),
      Sale(D_2025_02_03, <<"B">>, <<"Y">>, 1, 50) }

GroupInputs == SeqsUpTo(GroupTestRows \cup SaleRows \cup TypedRows, MaxRows)

InitGroup ==
    /\ productRows \in GroupInputs
    /\ grouped = [called |-> FALSE, r |-> <<>>]
    /\ IdleDate /\ IdleAcc /\ IdleGrowth /\ IdlePipe /\ IdleAnomaly /\ IdleCard /\ IdleImport

\* grouped = groupByProduct(productRows)
GroupByProductCall ==
    /\ ~grouped.called
    /\ grouped' = [called |-> TRUE, r |-> groupByProduct(productRows)]
    /\ UNCHANGED <<productRows, dateVars, accVars, growthVars, pipeVars, anomalyVars,
                   cardVars, importVars>>

NextGroup == GroupByProductCall
SpecGroup == InitGroup /\ [][NextGroup]_vars

\* ------------------------------------------------------------ detectAnomalies

\* detectAnomalies is applied to up to MaxPeriods period values
MaxPeriods == 4

\* The values of the unit tests (100, 500, 10), zero, a negative value and
\* values that are no finite number.
AnomalyValues == {Num(100), Num(500), Num(10), Num(0), Num(-5), NaN, PosInf}

AnomalyInputs ==
    {[i \in 1..Len(q) |-> [period |-> [k |-> "month", s |-> <<>>, n |-> i], value |-> q[i]]] :
        q \in SeqsUpTo(AnomalyValues, MaxPeriods)}

InitAnomaly ==
    /\ periodValuesIn \in AnomalyInputs
    /\ anomalies = [called |-> FALSE, r |-> <<>>]
    /\ IdleDate /\ IdleAcc /\ IdleGrowth /\ IdlePipe /\ IdleGroup /\ IdleCard /\ IdleImport

\* anomalies = detectAnomalies(periodValuesIn)
DetectAnomaliesCall ==
    /\ ~anomalies.called
    /\ anomalies' = [called |-> TRUE, r |-> detectAnomalies(periodValuesIn)]
    /\ UNCHANGED <<periodValuesIn, dateVars, accVars, growthVars, pipeVars, groupVars,
                   cardVars, importVars>>

NextAnomaly == DetectAnomaliesCall
SpecAnomaly == InitAnomaly /\ [][NextAnomaly]_vars

\* ------------------------------------------------------------ SalesInsightsCard

\* generateInsights(rows) as one function: the gate, then what the eleven
\* steps append, deduplicated and capped.
StepOutputs(rs, c) ==
    <<StepQuality(rs), StepTrend(c), StepTopProducts(c), StepMismatch(c),
      StepCategoryLeader(c), StepCategoryGrowth(c), StepConcentration(c),
      StepSteadyDemand(c), StepRecentSpike(c), StepSeasonality(c), StepAnomalies(c)>>
AppendOut(acc, out) == Out(acc.f \o out.f, acc.a \o out.a, acc.w \o out.w)
RECURSIVE GatheredUpTo(_, _)
GatheredUpTo(outs, n) ==
    IF n = 0 THEN Nothing ELSE AppendOut(GatheredUpTo(outs, n - 1), outs[n])
Gathered(outs) == GatheredUpTo(outs, Len(outs))
FinalizedOut(out) == Finalized(out.f, out.a, out.w)
generateInsights(input) ==
    IF GateFires(input) THEN Finalized(<<>>, <<>>, <<>>)
    ELSE FinalizedOut(Gathered(StepOutputs(input.items, Locals(input.items))))
InsightsOf(rs) == Returned(generateInsights([isArray |-> TRUE, items |-> rs]))

\* The arrays the parent passes as rows: the default [], two rows, and
\* arrays of three rows.
CardInputs ==
    { <<>>,
      <<Sale(D_01_01_2025, <<"A">>, <<"X">>, 2, 5), Sale(D_2025_02_03, <<"B">>, <<"Y">>, 1, 5)>>,
      <<Sale(D_01_01_2025, <<"A">>, <<"X">>, 2, 5), Sale(D_2025_02_03, <<"B">>, <<"Y">>, 1, 5),
        Sale(D_2025_02_03, <<"A">>, <<"X">>, 1, 5)>>,
      <<Sale(D_01_01_2025, <<"A">>, <<"X">>, 2, 5), Sale(D_2025_02_03, <<"B">>, <<"Y">>, 1, 5),
        Sale(D_2025_02_03, <<"C">>, <<"X">>, 4, 5)>>,
      <<Sale(D_01_01_2025, <<"A">>, <<"X">>, 2, 5), Sale(D_05_01_2025, <<"A">>, <<"X">>, 1, 5),
        Sale(D_15_01_2025, <<"B">>, <<"Y">>, 3, 5)>>,
      <<Sale(D_01_01_2025, <<"C">>, <<"Y">>, 1, 5), Sale(D_01_01_2025, <<"C">>, <<"Y">>, 1, 5),
        Sale(D_01_01_2025, <<"C">>, <<"Y">>, 1, 5)>> }

\* The first render: useState(null), useState(true); the effect of the
\* mount has not run yet.
InitCard ==
    /\ cardRows \in CardInputs
    /\ insights = NoResult /\ loading = TRUE
    /\ timer = NoTimer /\ effectDue = TRUE
    /\ IdleDate /\ IdleAcc /\ IdleGrowth /\ IdlePipe /\ IdleGroup /\ IdleAnomaly /\ IdleImport

\* The parent renders the card with other rows: the render sees the state
\* as it is, and the effect of [rows] is due.  Effects of a render run
\* before the next render.
RowsChange ==
    /\ ~effectDue
    /\ \E r \in CardInputs \ {cardRows} : cardRows' = r
    /\ effectDue' = TRUE
    /\ UNCHANGED <<insights, loading, timer>>
    /\ UNCHANGED <<dateVars, accVars, growthVars, pipeVars, groupVars, anomalyVars, importVars>>

\* The effect: cleanup of the previous run (clearTimeout), setLoading(true),
\* setTimeout(.., 0) with the rows of this render.
RunEffect ==
    /\ effectDue
    /\ effectDue' = FALSE
    /\ loading' = TRUE
    /\ timer' = [pending |-> TRUE, rows |-> cardRows]
    /\ UNCHANGED <<cardRows, insights>>
    /\ UNCHANGED <<dateVars, accVars, growthVars, pipeVars, groupVars, anomalyVars, importVars>>

\* The timer callback, for a timer not cleared: generateInsights on the rows
\* of its render, setInsights, setLoading(false).  When the effect of a
\* newer render is still due, it runs before the callback's updates are
\* rendered: its setLoading(true) is applied last and it sets a new timer.
TimerFires ==
    /\ timer.pending
    /\ insights' = InsightsOf(timer.rows)
    /\ loading' = effectDue
    /\ timer' = IF effectDue THEN [pending |-> TRUE, rows |-> cardRows] ELSE NoTimer
    /\ effectDue' = FALSE
    /\ UNCHANGED cardRows
    /\ UNCHANGED <<dateVars, accVars, growthVars, pipeVars, groupVars, anomalyVars, importVars>>

NextCard == RowsChange \/ RunEffect \/ TimerFires
SpecCard == InitCard /\ [][NextCard]_vars

\* ------------------------------------------------------------ ImportCard

\* The modal is opened at most MaxSessions times and handleFile accepts at
\* most MaxFiles files.
MaxSessions == 3
MaxFiles == 2

\* A file: whether its name ends with .csv, and whether file.text() and
\* parseCSV give rows (otherwise they throw).
ImportFiles == [csv : BOOLEAN, valid : BOOLEAN]

InitImport ==
    /\ open = FALSE /\ isProcessing = FALSE /\ error = ""
    /\ session = 0 /\ files = 0 /\ reading = {} /\ closing = <<>> /\ pageRows = 0
    /\ IdleDate /\ IdleAcc /\ IdleGrowth /\ IdlePipe /\ IdleGroup /\ IdleAnomaly /\ IdleCard

\* The page sets openImport (button or the key "I"); the effect of [open]
\* resets isProcessing and error.
OpenImport ==
    /\ ~open /\ session < MaxSessions
    /\ open' = TRUE
    /\ session' = session + 1
    /\ isProcessing' = FALSE
    /\ error' = ""
    /\ UNCHANGED <<files, reading, closing, pageRows>>
    /\ UNCHANGED <<dateVars, accVars, growthVars, pipeVars, groupVars, anomalyVars, cardVars>>

\* onClose(): the page sets openImport to false.
Closed ==
    /\ open' = FALSE
    /\ UNCHANGED <<isProcessing, error, session, files, reading, closing, pageRows>>
    /\ UNCHANGED <<dateVars, accVars, growthVars, pipeVars, groupVars, anomalyVars, cardVars>>

\* The close button and the cancel button: onClick={onClose}, disabled
\* while isProcessing.
CloseButton == open /\ ~isProcessing /\ Closed

\* onMouseDown on the backdrop: closes when not processing.
ClickOutside == open /\ ~isProcessing /\ Closed

\* The keydown listener, registered while open: Escape calls onClose().
Escape == open /\ Closed

\* handleFile up to its await: a name without .csv sets the error; otherwise
\* isProcessing is set and the text of the file is awaited.
HandleFile(file) ==
    /\ IF ~file.csv
       THEN /\ error' = "Please upload a .csv file"
            /\ UNCHANGED <<isProcessing, files, reading>>
       ELSE /\ files < MaxFiles
            /\ isProcessing' = TRUE
            /\ error' = ""
            /\ files' = files + 1
            /\ reading' = reading \cup {[id |-> files + 1, session |-> session,
                                         valid |-> file.valid]}
    /\ UNCHANGED <<open, session, closing, pageRows>>
    /\ UNCHANGED <<dateVars, accVars, growthVars, pipeVars, groupVars, anomalyVars, cardVars>>

\* The file input (disabled while isProcessing; the drop zone opens it only
\* when not processing).
SelectFile == open /\ ~isProcessing /\ \E file \in ImportFiles : HandleFile(file)

\* handleDrop: takes the first dropped file.
DropFile == open /\ \E file \in ImportFiles : HandleFile(file)

\* handleFile after its await: onImport(parsedData) and the 500 ms timer,
\* or the catch branch.
ReadDone ==
    /\ \E r \in reading :
          /\ reading' = reading \ {r}
          /\ IF r.valid
             THEN /\ pageRows' = r.id
                  /\ closing' = Append(closing, r.session)
                  /\ UNCHANGED <<isProcessing, error>>
             ELSE /\ error' = "Failed to parse CSV file"
                  /\ isProcessing' = FALSE
                  /\ UNCHANGED <<pageRows, closing>>
    /\ UNCHANGED <<open, session, files>>
    /\ UNCHANGED <<dateVars, accVars, growthVars, pipeVars, groupVars, anomalyVars, cardVars>>

\* The 500 ms timer: onClose(), setIsProcessing(false).
DelayedClose ==
    /\ closing # <<>>
    /\ closing' = Tail(closing)
    /\ open' = FALSE
    /\ isProcessing' = FALSE
    /\ UNCHANGED <<error, session, files, reading, pageRows>>
    /\ UNCHANGED <<dateVars, accVars, growthVars, pipeVars, groupVars, anomalyVars, cardVars>>

NextImport ==
    \/ OpenImport \/ CloseButton \/ ClickOutside \/ Escape
    \/ SelectFile \/ DropFile \/ ReadDone \/ DelayedClose
SpecImport == InitImport /\ [][NextImport]_vars

\* ============================================================ properties

EmptyLists == [findings |-> <<>>, actions |-> <<>>, warnings |-> <<>>]
TooFewRows == ~rows.isArray \/ Len(rows.items) < 3
InPipeline ==
    pc \in {"quality", "trend", "top", "mismatch", "catLeader", "catGrowth",
            "concentration", "steady", "spike", "season", "anomaly", "finalize"}

\* C1: an input that is not an array, or has fewer than 3 rows, returns three
\* empty lists whatever its rows hold; an array of 3 or more rows always goes
\* through the pipeline (the steps are entered only with such an array, and
\* its result carries the top-products finding, so it is never the gate's).
C1_GateOnlyBelowThreeRows ==
    /\ (pc = "done" /\ TooFewRows) => result = Returned(EmptyLists)
    /\ InPipeline => ~TooFewRows
    /\ (pc = "done" /\ ~TooFewRows) => result.called /\ result.r.findings # <<>>

\* A call returned on a non-empty input below the threshold that holds a row
\* with an invalid date and a negative quantity.
C1_Witness ==
    /\ pc = "done" /\ rows.isArray /\ Len(rows.items) = 2
    /\ \E i \in 1..2 : rows.items[i].date = Str(D_31_02_2025) /\ rows.items[i].units = Num(-2)
    /\ result = Returned(EmptyLists)

NoDuplicates(arr) == \A i, j \in 1..Len(arr) : arr[i] = arr[j] => i = j
FirstOccurrences(arr) == {i \in 1..Len(arr) : \A j \in 1..(i - 1) : arr[j] # arr[i]}
NthOf(S, n) == CHOOSE i \in S : Cardinality({j \in S : j <= i}) = n
\* out is the first `cap` distinct entries of arr in order of first occurrence
IsFirstDistinct(out, arr, cap) ==
    /\ Len(out) = Min(cap, Cardinality(FirstOccurrences(arr)))
    /\ \A n \in 1..Len(out) : out[n] = arr[NthOf(FirstOccurrences(arr), n)]

\* C2: each returned list has no two equal strings, findings has at most 6
\* entries and actions at most 5, and each list is the first 6 (findings),
\* first 5 (actions) or all (warnings) of the distinct strings the steps
\* appended, in order of first occurrence.
C2_DistinctAndCapped ==
    (pc = "done" /\ ~TooFewRows) =>
        /\ NoDuplicates(result.r.findings) /\ NoDuplicates(result.r.actions)
        /\ NoDuplicates(result.r.warnings)
        /\ Len(result.r.findings) <= 6 /\ Len(result.r.actions) <= 5
        /\ IsFirstDistinct(result.r.findings, findings, 6)
        /\ IsFirstDistinct(result.r.actions, actions, 5)
        /\ IsFirstDistinct(result.r.warnings, warnings, Len(warnings))

\* A call that appended more than 6 distinct findings, more than 5 distinct
\* actions and the same warning twice.
C2_Witness ==
    /\ pc = "done"
    /\ Cardinality(FirstOccurrences(findings)) > 6
    /\ Cardinality(FirstOccurrences(actions)) > 5
    /\ ~NoDuplicates(warnings)
    /\ Len(result.r.findings) = 6 /\ Len(result.r.actions) = 5

\* A field value of a type its accessor cannot use.
IsWrongType(v) == v.t \in {"undefined", "null", "object", "boolean", "NaN", "Infinity"}

PermuteRows(rs, p) == [i \in 1..Len(rs) |-> rs[p[i]]]

\* What steps 1, 2, 7, 11 and steps 3, 5, 6, 10 append for rows rs.
OrderFreeSteps(rs, c) ==
    <<StepQuality(rs), StepTrend(c), StepConcentration(c), StepAnomalies(c)>>
SortedSteps(c) ==
    <<StepTopProducts(c), StepCategoryLeader(c), StepCategoryGrowth(c), StepSeasonality(c)>>

Distinct(arr) == \A i, j \in 1..Len(arr) : arr[i] = arr[j] => i = j

\* No two categories with a positive previous month have the same growth.
NoGrowthTie(cats, cm, lastKey, prevKey) ==
    \A i, j \in 1..Len(cats) :
        (/\ i # j
         /\ MapGet(cm, cats[i] \o <<"_", "_">> \o prevKey) > 0
         /\ MapGet(cm, cats[j] \o <<"_", "_">> \o prevKey) > 0)
        => (MapGet(cm, cats[i] \o <<"_", "_">> \o lastKey)
                * MapGet(cm, cats[j] \o <<"_", "_">> \o prevKey)
            # MapGet(cm, cats[j] \o <<"_", "_">> \o lastKey)
                * MapGet(cm, cats[i] \o <<"_", "_">> \o prevKey))

\* No two products tie in revenue or in units, no two categories in revenue
\* or in growth, no two weekdays and no two months in revenue.
NoTies(c) ==
    /\ Distinct([i \in 1..Len(c.byProduct) |-> c.byProduct[i].revenue])
    /\ Distinct([i \in 1..Len(c.byProduct) |-> c.byProduct[i].quantity])
    /\ Distinct([i \in 1..Len(c.byCategory) |-> c.byCategory[i].revenue])
    /\ Distinct([i \in 1..Len(c.byDay) |-> c.byDay[i].revenue])
    /\ Distinct([i \in 1..Len(c.byMonthOnly) |-> c.byMonthOnly[i].revenue])
    /\ Len(c.monthKeys) >= 2 =>
            NoGrowthTie(CategoryNames(c.byCategory), c.catMonthMap,
                        Last(c.monthKeys), c.monthKeys[Len(c.monthKeys) - 1])

\* The permuted rows q, with locals cq, give the strings `free` in steps
\* 1, 2, 7, 11 and, where required, the strings `sorted` in steps 3, 5, 6, 10.
PermLocalsAgree(q, cq, free, sorted, required) ==
    /\ OrderFreeSteps(q, cq) = free
    /\ required => SortedSteps(cq) = sorted
PermAgrees(q, free, sorted, required) ==
    PermLocalsAgree(q, Locals(q), free, sorted, required)
AllPermsAgree(rs, free, sorted, required) ==
    \A p \in Permutations(1..Len(rs)) :
        PermAgrees(PermuteRows(rs, p), free, sorted, required)
AgreeOnAll(rs, c) == AllPermsAgree(rs, OrderFreeSteps(rs, c), SortedSteps(c), TRUE)
AgreeUnlessTied(rs, c) ==
    AllPermsAgree(rs, OrderFreeSteps(rs, c), SortedSteps(c), NoTies(c))

\* C4 as stated: the strings of steps 1, 2, 3, 5, 6, 7, 10 and 11 are the
\* same for the rows and for every permutation of them.
C4_AllAggregateStepsOrderFree ==
    (pc = "done" /\ callNo = 1 /\ ~TooFewRows) =>
        AgreeOnAll(rows.items, Locals(rows.items))

\* C4, amended: the strings of steps 1, 2, 7 and 11 are the same for the
\* rows and for every permutation of them; those of steps 3, 5, 6 and 10 are
\* the same when no two products tie in revenue or units, no two categories
\* in revenue or growth, and no two weekdays or months in revenue.
C4_OrderFreeUnlessTied ==
    (pc = "done" /\ callNo = 1 /\ ~TooFewRows) =>
        AgreeUnlessTied(rows.items, Locals(rows.items))

\* A call on rows without ties, not all equal, over two months and two
\* categories, so that the sorted steps had something to order.
C4_Witness ==
    /\ pc = "done" /\ callNo = 1 /\ Len(rows.items) >= 3
    /\ rows.items[1] # rows.items[2]
    /\ NoTies(Locals(rows.items))
    /\ Len(Locals(rows.items).monthKeys) >= 2
    /\ Len(Locals(rows.items).byProduct) >= 2
    /\ Len(Locals(rows.items).byCategory) >= 2

SpelledYear(cs) == ParseInt(IF MatchDMY(cs) THEN SubSeq(cs, 7, 10) ELSE SubSeq(cs, 1, 4))
SpelledMonth(cs) == ParseInt(IF MatchDMY(cs) THEN SubSeq(cs, 4, 5) ELSE SubSeq(cs, 6, 7))
SpelledDay(cs) == ParseInt(IF MatchDMY(cs) THEN SubSeq(cs, 1, 2) ELSE SubSeq(cs, 9, 10))
\* The same numbers in the other spelling.
OtherSpelling(cs) ==
    IF MatchDMY(cs) THEN SpellYMD(SpelledYear(cs), SpelledMonth(cs), SpelledDay(cs))
    ELSE SpellDMY(SpelledYear(cs), SpelledMonth(cs), SpelledDay(cs))
\* y-m-d is a date of the calendar.
InCalendar(y, m, d) == m \in 1..12 /\ d \in 1..DaysInMonth(y, m)
\* cs is DD-MM-YYYY or YYYY-MM-DD and names a date of the calendar.
NamesDate(cs) ==
    /\ MatchDMY(cs) \/ MatchYMD(cs)
    /\ InCalendar(SpelledYear(cs), SpelledMonth(cs), SpelledDay(cs))
\* The same, a year 0000..0099 being checked as 1900..1999.
NamesDateAsBuilt(cs) ==
    /\ MatchDMY(cs) \/ MatchYMD(cs)
    /\ InCalendar(IF SpelledYear(cs) < 100 THEN 1900 + SpelledYear(cs) ELSE SpelledYear(cs),
                  SpelledMonth(cs), SpelledDay(cs))
\* The result r has the numbers of cs, and the other spelling gives r.
FieldsAgree(r, cs) ==
    /\ r.year = SpelledYear(cs) /\ r.month = SpelledMonth(cs) /\ r.day = SpelledDay(cs)
    /\ parseDate(Str(OtherSpelling(cs))) = r

C7_WeekKeyIsMondayOfWeek ==
    (parsed.called /\ parsed.r.ok) =>
        /\ GetDay(DayCount(parsed.r.weekKey.y, parsed.r.weekKey.m, parsed.r.weekKey.d)) = 1
        /\ DayCount(parsed.r.weekKey.y, parsed.r.weekKey.m, parsed.r.weekKey.d)
                <= parsed.r.date
        /\ parsed.r.date
             - DayCount(parsed.r.weekKey.y, parsed.r.weekKey.m, parsed.r.weekKey.d) <= 6

\* The exact change (current - previous) * 100 / previous as a fraction.
ChangeNum == (current.n - previous.n) * 100
ChangeDen == previous.n
\* The exact change lies halfway between two integers.
IsHalfway == (2 * Abs(ChangeNum)) % Abs(ChangeDen) = 0 /\ Abs(ChangeNum) % Abs(ChangeDen) # 0

\* C8: with previous zero or not finite the result is pct 100 "up" when
\* current > 0 and pct 0 "flat" otherwise; with previous finite and not zero
\* pct is an integer nearest to (current - previous) / previous * 100, the
\* direction is up, down or flat as pct is positive, negative or zero, and the
\* text is "up pct%", "down |pct|%" or "flat"; (120,100) gives 20 up,
\* (80,100) gives -20 down, (100,100) gives 0 flat and (10,0) gives 100 up.
C8_GrowthContract ==
    growth.called =>
        /\ (~IsFinite(previous) \/ previous.n = 0) =>
                IF current.n > 0
                THEN growth.r.pct = 100 /\ growth.r.direction = "up"
                ELSE growth.r.pct = 0 /\ growth.r.direction = "flat"
        /\ (IsFinite(previous) /\ previous.n # 0) =>
                /\ 2 * Abs(ChangeNum - growth.r.pct * ChangeDen) <= Abs(ChangeDen)
                /\ growth.r.pct > 0 =>
                        growth.r.direction = "up"
                        /\ growth.r.text = [k |-> "up %", n |-> growth.r.pct]
                /\ growth.r.pct < 0 =>
                        growth.r.direction = "down"
                        /\ growth.r.text = [k |-> "down %", n |-> -growth.r.pct]
                /\ growth.r.pct = 0 =>
                        growth.r.direction = "flat"
                        /\ growth.r.text = [k |-> "flat", n |-> 0]
        /\ (current = Num(120) /\ previous = Num(100)) =>
                growth.r.pct = 20 /\ growth.r.direction = "up"
        /\ (current = Num(80) /\ previous = Num(100)) =>
                growth.r.pct = -20 /\ growth.r.direction = "down"
        /\ (current = Num(100) /\ previous = Num(100)) =>
                growth.r.pct = 0 /\ growth.r.direction = "flat"
        /\ (current = Num(10) /\ previous = Num(0)) =>
                growth.r.pct = 100 /\ growth.r.direction = "up"

\* computeGrowth(2, 3) returned -33 "down".
C8_Witness ==
    /\ growth.called /\ current = Num(2) /\ previous = Num(3)
    /\ growth.r = GrowthResult(-33, "down", [k |-> "down %", n |-> 33])

\* C9 as stated: when the exact change is halfway between two integers, pct
\* is the one farther from zero, for negative changes as for positive ones.
C9_HalfAwayFromZero ==
    (growth.called /\ IsFinite(previous) /\ previous.n # 0 /\ IsHalfway) =>
        2 * Abs(growth.r.pct) * Abs(ChangeDen) = 2 * Abs(ChangeNum) + Abs(ChangeDen)

\* C9, amended: when the change is halfway between two integers, pct is the
\* greater of the two: farther from zero for a positive change (+2.5 gives
\* 3), nearer to zero for a negative one (-2.5 gives -2).
C9_HalfTowardPlusInfinity ==
    (growth.called /\ IsFinite(previous) /\ previous.n # 0 /\ IsHalfway) =>
        2 * growth.r.pct * ChangeDen = 2 * ChangeNum + ChangeDen

\* computeGrowth(39, 40), an exact change of -2.5, returned pct -2.
C9_Witness ==
    /\ growth.called /\ current = Num(39) /\ previous = Num(40)
    /\ IsHalfway /\ growth.r.pct = -2 /\ growth.r.direction = "down"

\* C10: getQuantity uses row.units when present and row.quantity only when
\* units is absent, and gives 0 when that value is no finite number;
\* getRevenue gives row.revenue when it is a finite number, otherwise
\* getQuantity(row) * price, and 0 when price is no finite number; both
\* results are finite numbers.
C10_AccessorsFinite ==
    /\ qtyOut.called =>
        /\ IsFinite(qtyOut.r)
        /\ qtyOut.r = IF IsFinite(ToNumber(Coalesce(rowIn.units, rowIn.quantity)))
                      THEN ToNumber(Coalesce(rowIn.units, rowIn.quantity)) ELSE Num(0)
    /\ revOut.called =>
        /\ IsFinite(revOut.r)
        /\ IsFinite(rowIn.revenue) => revOut.r = rowIn.revenue
        /\ (~IsFinite(rowIn.revenue) /\ ~IsFinite(ToNumber(rowIn.price))) => revOut.r = Num(0)

\* The trimmed product name of each row, in row order.
NamesOf(rs) == [i \in 1..Len(rs) |-> productName(rs[i])]
RowsNamed(rs, name) == {i \in 1..Len(rs) : productName(rs[i]) = name}
RECURSIVE RevenueOfRows(_, _)
RevenueOfRows(rs, S) ==
    IF S = {} THEN 0
    ELSE LET i == CHOOSE j \in S : TRUE
         IN getRevenue(rs[i]).n + RevenueOfRows(rs, S \ {i})
RECURSIVE QuantityOfRows(_, _)
QuantityOfRows(rs, S) ==
    IF S = {} THEN 0
    ELSE LET i == CHOOSE j \in S : TRUE
         IN getQuantity(rs[i]).n + QuantityOfRows(rs, S \ {i})

\* C11: groupByProduct returns exactly one entry per distinct trimmed product
\* name ("Unknown" for an empty one), in order of first occurrence; an entry's
\* revenue and quantity are the sums of getRevenue and getQuantity over the
\* rows with that name, and its category is the normalized category of the
\* first row with that name.
C11_OneEntryPerProduct ==
    grouped.called =>
        /\ Len(grouped.r) = Cardinality(FirstOccurrences(NamesOf(productRows)))
        /\ \A n \in 1..Len(grouped.r) :
              LET first == NthOf(FirstOccurrences(NamesOf(productRows)), n)
                  name == productName(productRows[first])
              IN /\ grouped.r[n].product = name
                 /\ name # <<>>
                 /\ grouped.r[n].revenue =
                        RevenueOfRows(productRows, RowsNamed(productRows, name))
                 /\ grouped.r[n].quantity =
                        QuantityOfRows(productRows, RowsNamed(productRows, name))
                 /\ grouped.r[n].category = normCat(productRows[first].category)

\* Three rows of two products, as in the unit test: A with revenue 50 and
\* quantity 5 from two rows, then B with revenue 50 and quantity 1.
C11_Witness ==
    /\ grouped.called /\ Len(productRows) = 3 /\ Len(grouped.r) = 2
    /\ grouped.r[1] = [product |-> <<"A">>, revenue |-> 50, quantity |-> 5,
                       category |-> <<"X">>]
    /\ grouped.r[2] = [product |-> <<"B">>, revenue |-> 50, quantity |-> 1,
                       category |-> <<"Y">>]


RECURSIVE SumAt(_, _)
SumAt(f, S) ==
    IF S = {} THEN 0 ELSE LET i == CHOOSE j \in S : TRUE IN f[i] + SumAt(f, S \ {i})

\* The entries that count for the statistics, and the statistics scaled to
\* integers: with k counted values of sum S, avg is S / k and the population
\* variance is D / k^3, where D is the sum of (k v - S)^2 over them.
Counted(pvs) == {i \in 1..Len(pvs) : pvs[i].value.t = "number" /\ pvs[i].value.n >= 0}
ValueAt(pvs) == [i \in 1..Len(pvs) |-> pvs[i].value.n]
ScaledDev(pvs, i) == Cardinality(Counted(pvs)) * pvs[i].value.n - SumAt(ValueAt(pvs), Counted(pvs))
ScaledVar(pvs) == SumAt([i \in 1..Len(pvs) |-> ScaledDev(pvs, i) * ScaledDev(pvs, i)], Counted(pvs))
\* |value - avg| / avg >= 0.5, taken as not met when avg is 0
ChangeAtLeastHalf(pvs, i) ==
    /\ SumAt(ValueAt(pvs), Counted(pvs)) # 0
    /\ 2 * Abs(ScaledDev(pvs, i)) >= SumAt(ValueAt(pvs), Counted(pvs))
\* |value - avg| / std >= 2, taken as not met when std is 0
TwoDeviations(pvs, i) ==
    /\ ScaledVar(pvs) > 0
    /\ Cardinality(Counted(pvs)) * ScaledDev(pvs, i) * ScaledDev(pvs, i) >= 4 * ScaledVar(pvs)
IsSpikeAt(pvs, i) ==
    ScaledDev(pvs, i) > 0 /\ (ChangeAtLeastHalf(pvs, i) \/ TwoDeviations(pvs, i))
IsDropAt(pvs, i) ==
    ScaledDev(pvs, i) < 0 /\ (ChangeAtLeastHalf(pvs, i) \/ TwoDeviations(pvs, i))
Flagged(pvs) ==
    IF Cardinality(Counted(pvs)) < 2 THEN {}
    ELSE {i \in 1..Len(pvs) : pvs[i].value.t = "number" /\ (IsSpikeAt(pvs, i) \/ IsDropAt(pvs, i))}

SubsetsOfSize(S, n) == {T \in SUBSET S : Cardinality(T) = n}
Top3Revenue(byProduct) ==
    LET revenue == [i \in 1..Len(byProduct) |-> byProduct[i].revenue]
        sums == {SumAt(revenue, T) : T \in SubsetsOfSize(1..Len(byProduct), Min(3, Len(byProduct)))}
    IN CHOOSE m \in sums : \A x \in sums : x <= m
TotalOf(rs) == SumAt([i \in 1..Len(rs) |-> getRevenue(rs[i]).n], 1..Len(rs))
IsConcentrationWarning(w) == w.k = "Over % of revenue depends on 3 products"

\* C13: for 3 or more rows with positive total revenue whose three
\* highest-revenue products hold more than 60 % of it, the returned warnings
\* contain the concentration warning.
C13_WarnsAboveSixtyPercent ==
    (/\ pc = "done" /\ ~TooFewRows
     /\ TotalOf(rows.items) > 0
     /\ 100 * Top3Revenue(groupByProduct(rows.items)) > 60 * TotalOf(rows.items))
    => \E i \in 1..Len(result.r.warnings) : IsConcentrationWarning(result.r.warnings[i])

\* A call on six products whose top three hold more than 60 % but not all of
\* the revenue returned the concentration warning.
C13_Witness ==
    /\ pc = "done" /\ Len(rows.items) = 6
    /\ 100 * Top3Revenue(groupByProduct(rows.items)) > 60 * TotalOf(rows.items)
    /\ Top3Revenue(groupByProduct(rows.items)) < TotalOf(rows.items)
    /\ \E i \in 1..Len(result.r.warnings) : IsConcentrationWarning(result.r.warnings[i])


\* The rows a data-quality count is about.
HasNoValidDate(r) ==
    \/ r.date.t \in {"undefined", "null"}
    \/ r.date = Str(<<>>)
    \/ ~parseDate(r.date).ok
QuantitySupplied(r) == r.units # Undefined \/ r.quantity # Undefined
HasBadQuantity(r) == QuantitySupplied(r) /\ getQuantity(r).n <= 0
HasNegativePrice(r) == ToNumber(r.price).t = "number" /\ ToNumber(r.price).n < 0
\* Row i repeats an earlier row: same date, product and category text, same
\* resolved quantity and same numeric price.
RepeatsEarlier(rs, i) ==
    \E j \in 1..(i - 1) :
        /\ ToStr(rs[j].date) = ToStr(rs[i].date)
        /\ ToStr(rs[j].product) = ToStr(rs[i].product)
        /\ ToStr(rs[j].category) = ToStr(rs[i].category)
        /\ getQuantity(rs[j]) = getQuantity(rs[i])
        /\ ToNumber(rs[j].price) = ToNumber(rs[i].price)
\* Row i has the composite key of an earlier row.
RepeatsKey(rs, i) == \E j \in 1..(i - 1) : DupKey(rs[j]) = DupKey(rs[i])
WarningsOfKind(ws, k) == {i \in 1..Len(ws) : ws[i].k = k}
\* ws holds one warning of kind k carrying count, or none when count is 0.
OneWarningWithCount(ws, k, count) ==
    /\ Cardinality(WarningsOfKind(ws, k)) = IF count > 0 THEN 1 ELSE 0
    /\ \A i \in WarningsOfKind(ws, k) : ws[i].n = <<count>>

\* C14: for 3 or more rows, the returned warnings hold the missing-or-invalid
\* dates warning exactly when some row has an absent, empty or unparsable
\* date, with the number of such rows; likewise the rows with a supplied
\* quantity resolving to 0 or less, the rows with a finite negative price
\* and the rows counted as possible duplicates (those with the composite key
\* of an earlier row) each give exactly one warning with their count when
\* the count is not zero, and none when it is.
C14_OneWarningPerNonZeroCount ==
    (pc = "done" /\ ~TooFewRows) =>
        /\ OneWarningWithCount(result.r.warnings, "row(s) have missing or invalid dates",
              Cardinality({i \in 1..Len(rows.items) : HasNoValidDate(rows.items[i])}))
        /\ OneWarningWithCount(result.r.warnings, "row(s) have zero or invalid quantity",
              Cardinality({i \in 1..Len(rows.items) : HasBadQuantity(rows.items[i])}))
        /\ OneWarningWithCount(result.r.warnings, "row(s) have negative price",
              Cardinality({i \in 1..Len(rows.items) : HasNegativePrice(rows.items[i])}))
        /\ OneWarningWithCount(result.r.warnings, "possible duplicate row(s)",
              Cardinality({i \in 1..Len(rows.items) : RepeatsKey(rows.items, i)}))

\* A call on three rows returned the dates warning with count 3, the
\* quantity warning with count 1 and the duplicates warning with count 1,
\* and no price warning.
C14_Witness ==
    /\ pc = "done" /\ ~TooFewRows
    /\ \E i \in 1..Len(result.r.warnings) :
          /\ result.r.warnings[i].k = "row(s) have missing or invalid dates"
          /\ result.r.warnings[i].n = <<3>>
    /\ \E i \in 1..Len(result.r.warnings) :
          /\ result.r.warnings[i].k = "row(s) have zero or invalid quantity"
          /\ result.r.warnings[i].n = <<1>>
    /\ \E i \in 1..Len(result.r.warnings) :
          /\ result.r.warnings[i].k = "possible duplicate row(s)"
          /\ result.r.warnings[i].n = <<1>>
    /\ WarningsOfKind(result.r.warnings, "row(s) have negative price") = {}


\* The calendar months of the rows with a parsable date, numbered by
\* 12 * year + month, the two most recent of them and their revenue totals.
MonthNo(r) == 12 * parseDate(r.date).year + parseDate(r.date).month
MonthsOf(rs) == {MonthNo(rs[i]) : i \in {j \in 1..Len(rs) : parseDate(rs[j].date).ok}}
Latest(S) == CHOOSE m \in S : \A x \in S : x <= m
LastMonth(rs) == Latest(MonthsOf(rs))
PrevMonth(rs) == Latest(MonthsOf(rs) \ {LastMonth(rs)})
MonthTotal(rs, m) ==
    SumAt([i \in 1..Len(rs) |-> getRevenue(rs[i]).n],
          {i \in 1..Len(rs) : parseDate(rs[i].date).ok /\ MonthNo(rs[i]) = m})
LastMonthLower(rs) ==
    /\ Cardinality(MonthsOf(rs)) >= 2
    /\ MonthTotal(rs, LastMonth(rs)) < MonthTotal(rs, PrevMonth(rs))
\* The first returned finding is the monthly trend finding for the two most
\* recent months.
TrendIsFirstFinding(r, rs) ==
    /\ r.findings # <<>>
    /\ r.findings[1].k = "Revenue is .. in .. vs .."
    /\ r.findings[1].n[2] = parseDate(rs[CHOOSE i \in 1..Len(rs) :
                                parseDate(rs[i].date).ok /\ MonthNo(rs[i]) = LastMonth(rs)].date).month
    /\ r.findings[1].n[3] = parseDate(rs[CHOOSE i \in 1..Len(rs) :
                                parseDate(rs[i].date).ok /\ MonthNo(rs[i]) = PrevMonth(rs)].date).month
ReportsDown(r) ==
    /\ r.findings[1].t = "down %"
    /\ r.actions # <<>>
    /\ r.actions[1].k = "Focus on promoting your top 3 products or run a small promotion."
\* The decrease is more than 0.5 % of a positive previous total, so that the
\* percentage change rounds to a negative integer.
RoundsToDecrease(last, prev) == prev > 0 /\ 200 * (prev - last) > prev

Selections(arr, n) ==
    {sel \in [1..n -> 1..Len(arr)] : \A i, j \in 1..n : sel[i] = sel[j] => i = j}
FindingsOfKind(fs, k) == {i \in 1..Len(fs) : fs[i].k = k}
\* names lists up to three entries of byProduct in non-increasing order of
\* amount, and no entry left out has a higher amount than a listed one.
ListsTop3(names, byProduct, amount) ==
    \E sel \in Selections(byProduct, Min(3, Len(byProduct))) :
        /\ names = Join([n \in 1..Len(sel) |-> byProduct[sel[n]].product])
        /\ \A n \in 1..(Len(sel) - 1) : amount[sel[n]] >= amount[sel[n + 1]]
        /\ \A j \in 1..Len(byProduct), n \in 1..Len(sel) :
              (\A m \in 1..Len(sel) : sel[m] # j) => amount[j] <= amount[sel[n]]
\* head is the first name of such a list.
HeadsTop3(head, byProduct, amount) ==
    \E i \in 1..Len(byProduct) :
        /\ head = byProduct[i].product
        /\ \A j \in 1..Len(byProduct) : amount[j] <= amount[i]
TopProductsListed(fs, as, byProduct, total) ==
    /\ Cardinality(FindingsOfKind(fs, "Top 3 products by revenue")) = 1
    /\ \A i \in FindingsOfKind(fs, "Top 3 products by revenue") :
          ListsTop3(fs[i].s, byProduct, [n \in 1..Len(byProduct) |-> byProduct[n].revenue])
    /\ Cardinality(FindingsOfKind(as, "Restock and promote")) = 1
    /\ \A i \in FindingsOfKind(as, "Restock and promote"),
          j \in FindingsOfKind(fs, "Top 3 products by revenue") :
          /\ HeadsTop3(as[i].s, byProduct, [n \in 1..Len(byProduct) |-> byProduct[n].revenue])
          /\ SubSeq(fs[j].s, 1, Len(as[i].s)) = as[i].s
    /\ Cardinality(FindingsOfKind(fs, "Top 3 products by units sold"))
          = IF total > 0 THEN 1 ELSE 0
    /\ \A i \in FindingsOfKind(fs, "Top 3 products by units sold") :
          ListsTop3(fs[i].s, byProduct, [n \in 1..Len(byProduct) |-> byProduct[n].quantity])

\* C16: for 3 or more rows the "Top 3 products by revenue" finding lists up
\* to three product names in non-increasing order of aggregated revenue, no
\* unlisted product has a higher revenue than a listed one, and the "Restock
\* and promote" action names the first listed product; the "Top 3 products
\* by units sold" finding is appended exactly when total revenue is positive
\* and lists products in non-increasing order of aggregated quantity.
C16_TopThreeLists ==
    (pc = "done" /\ ~TooFewRows) =>
        TopProductsListed(findings, actions, groupByProduct(rows.items), TotalOf(rows.items))

\* A call on six products whose rows are not in revenue order: the revenue
\* finding names three of them, starting with the second row's product, and
\* the units finding names three in another order.
C16_Witness ==
    /\ pc = "done" /\ Len(groupByProduct(rows.items)) = 6
    /\ rows.items[1].revenue.n < rows.items[2].revenue.n
    /\ rows.items[2].revenue.n > rows.items[3].revenue.n
    /\ \E i \in FindingsOfKind(findings, "Top 3 products by revenue"),
          j \in FindingsOfKind(findings, "Top 3 products by units sold") :
          /\ Len(findings[i].s) = 7 /\ Len(findings[j].s) = 7
          /\ findings[i].s # findings[j].s
          /\ findings[i].s[1] = "B"


\* The week keys of the rows with a parsable date.
WeeksOf(rs) == {parseDate(rs[i].date).weekKey : i \in {j \in 1..Len(rs) : parseDate(rs[j].date).ok}}
MonthlyTrends(fs) == FindingsOfKind(fs, "Revenue is .. in .. vs ..")
WeeklyTrends(fs) == FindingsOfKind(fs, "Revenue is .. this week vs last week")

\* C17: with 2 or more distinct month keys the trend finding compares the
\* two most recent months; otherwise, with 2 or more distinct week keys, the
\* trend step appends a finding comparing the two most recent weeks
\* ("... this week vs last week"); a trend finding is absent only when there
\* are fewer than 2 months and fewer than 2 weeks.
C17_WeeklyFallback ==
    (pc = "done" /\ ~TooFewRows) =>
        /\ Cardinality(MonthsOf(rows.items)) >= 2 => MonthlyTrends(findings) # {}
        /\ (Cardinality(MonthsOf(rows.items)) < 2 /\ Cardinality(WeeksOf(rows.items)) >= 2)
              => WeeklyTrends(findings) # {}
        /\ (MonthlyTrends(findings) = {} /\ WeeklyTrends(findings) = {})
              => (Cardinality(MonthsOf(rows.items)) < 2 /\ Cardinality(WeeksOf(rows.items)) < 2)


IsPrefix(a, b) == Len(a) <= Len(b) /\ SubSeq(b, 1, Len(a)) = a
\* b is a with some entries left out, the others in their order.
RECURSIVE IsSubsequence(_, _)
IsSubsequence(a, b) ==
    IF a = <<>> THEN TRUE
    ELSE IF b = <<>> THEN FALSE
    ELSE IF a[1] = b[1] THEN IsSubsequence(Tail(a), Tail(b))
    ELSE IsSubsequence(a, Tail(b))
\* The steps 1 to 11 in their fixed order, and the step after each.
StepOrder ==
    <<"quality", "trend", "top", "mismatch", "catLeader", "catGrowth", "concentration",
      "steady", "spike", "season", "anomaly", "finalize">>
StepNo(at) == CHOOSE n \in 1..Len(StepOrder) : StepOrder[n] = at
\* The sentences each of the steps 1 to 11 can append.
StepTemplates ==
    <<{"row(s) have missing or invalid dates", "row(s) have zero or invalid quantity",
       "row(s) have negative price", "possible duplicate row(s)"},
      {"Revenue is .. in .. vs ..", "Revenue is .. this week vs last week",
       "Keep stock levels healthy for your best sellers.",
       "Focus on promoting your top 3 products or run a small promotion.",
       "Keep up the momentum; consider restocking best sellers.",
       "Check if stock ran out or demand dipped; promote top products."},
      {"Top 3 products by revenue", "Top 3 products by units sold", "Restock and promote"},
      {"sells a lot but brings in only", "Review price or bundles for"},
      {"is your top category", "Focus on category"},
      {"is your fastest-growing category", "Promote - it is growing",
       "revenue is down % vs last period", "Check why is declining"},
      {"% of revenue comes from your top product; % from the top 3",
       "Try to grow sales of other products", "Over % of revenue depends on 3 products"},
      {"sells in many periods - steady demand", "Keep in stock; reorder before you run out"},
      {"had a recent spike in sales", "Restock to avoid running out"},
      {"Your best day for sales is", "Your best month for sales is",
       "Schedule promotions or extra stock for"},
      {"Unusual revenue spike in", "Revenue dropped in"}>>
\* list grew into grown by appending sentences of step number n only
GrewBy(list, grown, n) ==
    /\ IsPrefix(list, grown)
    /\ \A i \in (Len(list) + 1)..Len(grown) : grown[i].k \in StepTemplates[n]

\* C18: during one call the three lists only grow by appending: each of the
\* steps 1 to 11 leaves every list with its previous content as a prefix,
\* appends only its own sentences and hands over to the next step of the
\* fixed order without returning anything; only finalize, which comes last
\* and ends the call, leaves entries out, and only of the lists it returns.
C18_ListsOnlyGrow ==
    [][/\ (InPipeline /\ pc # "finalize" /\ pc' # "threw") =>
             /\ GrewBy(findings, findings', StepNo(pc))
             /\ GrewBy(actions, actions', StepNo(pc))
             /\ GrewBy(warnings, warnings', StepNo(pc))
             /\ pc' = StepOrder[StepNo(pc) + 1]
             /\ result' = result /\ ~result.called
       /\ pc = "finalize" =>
             /\ pc' = "done"
             /\ findings' = findings /\ actions' = actions /\ warnings' = warnings
             /\ IsSubsequence(result'.r.findings, findings)
             /\ IsSubsequence(result'.r.actions, actions)
             /\ IsSubsequence(result'.r.warnings, warnings)
       /\ pc' = "finalize" => pc = "anomaly"
      ]_vars

\* A call that reached finalize with entries appended to all three lists by
\* several steps, more findings than are returned.
C18_Witness ==
    /\ pc = "finalize"
    /\ Len(findings) > 6 /\ Len(actions) > 1 /\ Len(warnings) > 1
    /\ findings[1].k \in StepTemplates[2]
    /\ findings[Len(findings)].k \in StepTemplates[10] \cup StepTemplates[11]


\* The highest product revenue among the entries of groupByProduct.
Top1Revenue(byProduct) ==
    LET revs == {byProduct[i].revenue : i \in 1..Len(byProduct)}
    IN CHOOSE m \in revs : \A x \in revs : x <= m
\* p is the share part / total in percent, rounded to an integer.
IsRoundedShare(p, part, total) == 2 * Abs(100 * part - p * total) <= total
\* f is the concentration finding of the rows rs.
IsConcentrationFinding(f, rs) ==
    /\ f.k = "% of revenue comes from your top product; % from the top 3"
    /\ Len(f.n) = 2
    /\ IsRoundedShare(f.n[1], Top1Revenue(groupByProduct(rs)), TotalOf(rs))
    /\ IsRoundedShare(f.n[2], Top3Revenue(groupByProduct(rs)), TotalOf(rs))
DistinctBefore(fs, i) == Cardinality({fs[j] : j \in 1..(i - 1)})

\* C19 as claimed: for 3 or more rows with total revenue above 0, the
\* returned findings contain the concentration finding with the rounded
\* revenue shares of the top product and of the top three.
C19_ConcentrationFindingReturned ==
    (pc = "done" /\ ~TooFewRows /\ TotalOf(rows.items) > 0)
    => \E i \in 1..Len(result.r.findings) :
          IsConcentrationFinding(result.r.findings[i], rows.items)

\* C19 amended: for such rows step 7 appends the concentration finding
\* once, and the returned findings contain it exactly when fewer than 6
\* different findings were appended before it.
C19_ConcentrationFindingAppended ==
    (pc = "done" /\ ~TooFewRows /\ TotalOf(rows.items) > 0)
    => /\ Cardinality({i \in 1..Len(findings) :
                          IsConcentrationFinding(findings[i], rows.items)}) = 1
       /\ \A i \in 1..Len(findings) :
             IsConcentrationFinding(findings[i], rows.items)
             => ((\E j \in 1..Len(result.r.findings) : result.r.findings[j] = findings[i])
                    <=> DistinctBefore(findings, i) < 6)

\* A call whose trend, top-products, mismatch, category and growth findings
\* fill the six returned places: the concentration finding was appended
\* seventh and is not returned.
C19_Witness ==
    /\ pc = "done" /\ ~TooFewRows /\ TotalOf(rows.items) > 0
    /\ Len(findings) >= 7 /\ IsConcentrationFinding(findings[7], rows.items)
    /\ DistinctBefore(findings, 7) = 6
    /\ \A j \in 1..Len(result.r.findings) :
          ~IsConcentrationFinding(result.r.findings[j], rows.items)


\* C20: the concentration warning is returned only when the three
\* highest-revenue products account for more than 60 % of total revenue;
\* when their share is 60 % or less, no concentration warning and no
\* diversification action are appended.
C20_WarnsOnlyAboveSixtyPercent ==
    (pc = "done" /\ ~TooFewRows) =>
        /\ (\E i \in 1..Len(result.r.warnings) : IsConcentrationWarning(result.r.warnings[i]))
           => /\ TotalOf(rows.items) > 0
              /\ 100 * Top3Revenue(groupByProduct(rows.items)) > 60 * TotalOf(rows.items)
        /\ (/\ TotalOf(rows.items) > 0
            /\ 100 * Top3Revenue(groupByProduct(rows.items)) <= 60 * TotalOf(rows.items))
           => /\ \A i \in 1..Len(warnings) : ~IsConcentrationWarning(warnings[i])
              /\ \A i \in 1..Len(actions) : actions[i].k # "Try to grow sales of other products"


\* The category aggregates in order of first appearance, and the revenue of
\* a category in a calendar month (rows with a parsable date only).
CategoriesOf(rs) ==
    LET names == [i \in 1..Len(rs) |-> categoryName(rs[i])]
    IN [n \in 1..Cardinality(FirstOccurrences(names)) |->
            names[NthOf(FirstOccurrences(names), n)]]
CategoryMonthTotal(rs, cat, m) ==
    SumAt([i \in 1..Len(rs) |-> getRevenue(rs[i]).n],
          {i \in 1..Len(rs) : /\ parseDate(rs[i].date).ok /\ MonthNo(rs[i]) = m
                              /\ categoryName(rs[i]) = cat})
LastOf(rs, cat) == CategoryMonthTotal(rs, cat, LastMonth(rs))
PrevOf(rs, cat) == CategoryMonthTotal(rs, cat, PrevMonth(rs))
\* Category number i changed by more than (by at least) category number j,
\* both with positive previous-month revenue.
ChangeAbove(rs, cats, i, j) ==
    (LastOf(rs, cats[i]) - PrevOf(rs, cats[i])) * PrevOf(rs, cats[j])
        > (LastOf(rs, cats[j]) - PrevOf(rs, cats[j])) * PrevOf(rs, cats[i])
Growing(rs, cats) ==
    {i \in 1..Len(cats) : PrevOf(rs, cats[i]) > 0 /\ LastOf(rs, cats[i]) > PrevOf(rs, cats[i])}
Declining(rs, cats) ==
    {i \in 1..Len(cats) : PrevOf(rs, cats[i]) > 0 /\ LastOf(rs, cats[i]) < PrevOf(rs, cats[i])}
\* The first-seen category with the largest increase, and with the largest
\* decrease.
Fastest(rs, cats) ==
    FirstIndex({i \in Growing(rs, cats) : \A j \in Growing(rs, cats) : ~ChangeAbove(rs, cats, j, i)})
MostDeclining(rs, cats) ==
    FirstIndex({i \in Declining(rs, cats) :
                    \A j \in Declining(rs, cats) : ~ChangeAbove(rs, cats, i, j)})
GrowthFindings(fs) == FindingsOfKind(fs, "is your fastest-growing category")
DeclineFindings(fs) == FindingsOfKind(fs, "revenue is down % vs last period")
CategoryGrowthAsClaimed(fs, rs, cats) ==
    IF Cardinality(MonthsOf(rs)) < 2
    THEN GrowthFindings(fs) = {} /\ DeclineFindings(fs) = {}
    ELSE /\ Growing(rs, cats) # {} <=> GrowthFindings(fs) # {}
         /\ \A i \in GrowthFindings(fs) : fs[i].s = cats[Fastest(rs, cats)]
         /\ DeclineFindings(fs) # {} <=>
               /\ Declining(rs, cats) # {}
               /\ 10 * (PrevOf(rs, cats[MostDeclining(rs, cats)])
                        - LastOf(rs, cats[MostDeclining(rs, cats)]))
                     > PrevOf(rs, cats[MostDeclining(rs, cats)])
         /\ \A i \in DeclineFindings(fs) : fs[i].s = cats[MostDeclining(rs, cats)]

\* C21: with 2 or more month keys, among all category aggregates with
\* positive previous-month revenue ("Uncategorized", the aggregate of the
\* rows with an empty category, included) the fastest-growing finding names
\* the category whose latest-month revenue exceeds its previous-month
\* revenue by the largest percentage (the first seen on ties), and the
\* declining finding names the one with the most negative change and is
\* appended only when that change is below -10 %; with fewer than 2 month
\* keys neither is appended.
C21_CategoryGrowthOverAllCategories ==
    (pc = "done" /\ ~TooFewRows) =>
        CategoryGrowthAsClaimed(findings, rows.items, CategoriesOf(rows.items))


\* The rows with a parsable date, and the order in time of two week keys.
Parsable(rs) == {i \in 1..Len(rs) : parseDate(rs[i].date).ok}
WeekBefore(v, w) ==
    \/ v.y < w.y
    \/ v.y = w.y /\ v.m < w.m
    \/ v.y = w.y /\ v.m = w.m /\ v.d < w.d
\* The string order of the month keys and of the week keys of the rows is
\* their order in time.
KeysSortInTime(rs) ==
    \A i, j \in Parsable(rs) :
        /\ MonthNo(rs[i]) < MonthNo(rs[j]) =>
              StrLess(MonthKeyStr(parseDate(rs[i].date).year, parseDate(rs[i].date).month),
                      MonthKeyStr(parseDate(rs[j].date).year, parseDate(rs[j].date).month))
        /\ WeekBefore(parseDate(rs[i].date).weekKey, parseDate(rs[j].date).weekKey) =>
              StrLess(WeekKeyStr(parseDate(rs[i].date).weekKey),
                      WeekKeyStr(parseDate(rs[j].date).weekKey))

\* C22: for rows whose dates parseDate accepts (four-digit years 0000 to
\* 9999), sorting the month keys and the week keys as strings puts them in
\* chronological order, so that the trend step compares the two latest
\* months in time.
C22_KeysSortChronologically ==
    (pc = "done" /\ ~TooFewRows) =>
        /\ KeysSortInTime(rows.items)
        /\ Cardinality(MonthsOf(rows.items)) >= 2 => TrendIsFirstFinding(result.r, rows.items)


\* C23: the number in the "possible duplicate row(s)" warning is the number
\* of rows whose (date, product, category, quantity, price) equals that of
\* an earlier row; rows that differ in one of the five are never counted as
\* duplicates of each other; the count does not depend on the row order.
C23_DuplicatesAreEqualTuples ==
    (pc = "done" /\ ~TooFewRows) =>
        /\ OneWarningWithCount(result.r.warnings, "possible duplicate row(s)",
              Cardinality({i \in 1..Len(rows.items) : RepeatsEarlier(rows.items, i)}))
        /\ \A p \in Permutations(1..Len(rows.items)) :
              duplicateCount(PermuteRows(rows.items, p)) = duplicateCount(rows.items)


\* The month key and the week key of a row with a parsable date.
MonthKeyOf(r) == MonthKeyStr(parseDate(r.date).year, parseDate(r.date).month)
WeekKeyOf(r) == WeekKeyStr(parseDate(r.date).weekKey)
\* The entries of a grouping as [key, revenue, quantity].
ByProductKey(arr) ==
    [i \in 1..Len(arr) |->
        [key |-> arr[i].product, revenue |-> arr[i].revenue, quantity |-> arr[i].quantity]]
ByCategoryKey(arr) ==
    [i \in 1..Len(arr) |->
        [key |-> arr[i].category, revenue |-> arr[i].revenue, quantity |-> arr[i].quantity]]
RevenueSum(m) == SumAt([i \in 1..Len(m) |-> m[i].revenue], 1..Len(m))
QuantitySum(m) == SumAt([i \in 1..Len(m) |-> m[i].quantity], 1..Len(m))
\* The entries m have one entry for each key of the rows S of rs and no
\* other, and an entry holds the revenue and quantity of the rows of S with
\* its key; so the entries sum to the totals of the rows S.
EachRowOnce(m, rs, S, KeyOf(_)) ==
    /\ \A i, j \in 1..Len(m) : m[i].key = m[j].key => i = j
    /\ {m[i].key : i \in 1..Len(m)} = {KeyOf(rs[i]) : i \in S}
    /\ \A e \in 1..Len(m) :
          /\ m[e].revenue = RevenueOfRows(rs, {i \in S : KeyOf(rs[i]) = m[e].key})
          /\ m[e].quantity = QuantityOfRows(rs, {i \in S : KeyOf(rs[i]) = m[e].key})
    /\ RevenueSum(m) = RevenueOfRows(rs, S)
    /\ QuantitySum(m) = QuantityOfRows(rs, S)

\* C24: every row with a parsable date adds its revenue and quantity to
\* exactly one month key and one week key and the other rows to none, so the
\* month aggregates and the week aggregates both sum to the totals of the
\* rows with a parsable date; every row adds to exactly one product
\* aggregate and one category aggregate, so each of these sums to the totals
\* of all rows.
C24_AggregatesSumToTotals ==
    grouped.called =>
        /\ EachRowOnce(aggregateByMonth(productRows), productRows,
                       Parsable(productRows), MonthKeyOf)
        /\ EachRowOnce(aggregateByWeek(productRows), productRows,
                       Parsable(productRows), WeekKeyOf)
        /\ EachRowOnce(ByProductKey(grouped.r), productRows,
                       1..Len(productRows), productName)
        /\ EachRowOnce(ByCategoryKey(groupByCategory(productRows)), productRows,
                       1..Len(productRows), categoryName)

\* Three rows, two of them dated, in one month and two weeks, of two
\* products: the month aggregate and the product aggregates sum to
\* different totals.
C24_Witness ==
    /\ grouped.called /\ Len(productRows) = 3
    /\ Cardinality(Parsable(productRows)) = 2
    /\ Len(aggregateByMonth(productRows)) = 1
    /\ Len(aggregateByWeek(productRows)) = 2
    /\ Len(grouped.r) = 2
    /\ RevenueSum(aggregateByMonth(productRows)) # RevenueSum(ByProductKey(grouped.r))


\* The rows where a product name occurs first, and of these the rows of the
\* products with at least 15 % of all units, less than 5 % of all revenue
\* and a revenue above 0 (a share of a total that is not positive is 0 %).
FirstRows(rs) == FirstOccurrences(NamesOf(rs))
UnitsOf(rs, i) == QuantityOfRows(rs, RowsNamed(rs, productName(rs[i])))
RevenueOf(rs, i) == RevenueOfRows(rs, RowsNamed(rs, productName(rs[i])))
AllUnits(rs) == QuantityOfRows(rs, 1..Len(rs))
SellsALotForLittle(rs, i) ==
    /\ AllUnits(rs) > 0 /\ 100 * UnitsOf(rs, i) >= 15 * AllUnits(rs)
    /\ TotalOf(rs) > 0 => 100 * RevenueOf(rs, i) < 5 * TotalOf(rs)
    /\ RevenueOf(rs, i) > 0
MismatchRows(rs) == {i \in FirstRows(rs) : SellsALotForLittle(rs, i)}
NamesOnly(list, k, name) ==
    /\ Cardinality(FindingsOfKind(list, k)) = 1
    /\ \A i \in FindingsOfKind(list, k) : list[i].s = name

\* C25: a call appends at most one volume/revenue-mismatch finding and one
\* pricing-review action; they name the first product, in order of first
\* appearance in the rows, with at least 15 % of the units, less than 5 % of
\* the revenue and revenue above 0, and none is appended when no product
\* qualifies.
C25_FirstMismatchOnly ==
    (pc = "done" /\ ~TooFewRows) =>
        IF MismatchRows(rows.items) = {}
        THEN /\ FindingsOfKind(findings, "sells a lot but brings in only") = {}
             /\ FindingsOfKind(actions, "Review price or bundles for") = {}
        ELSE /\ NamesOnly(findings, "sells a lot but brings in only",
                          productName(rows.items[FirstIndex(MismatchRows(rows.items))]))
             /\ NamesOnly(actions, "Review price or bundles for",
                          productName(rows.items[FirstIndex(MismatchRows(rows.items))]))

\* Two products qualify and the product of the first row does not: the
\* finding names the earlier of the two.
C25_Witness ==
    /\ pc = "done" /\ ~TooFewRows
    /\ Cardinality(MismatchRows(rows.items)) >= 2
    /\ 1 \notin MismatchRows(rows.items)
    /\ \E i \in 1..Len(findings) :
          /\ findings[i].k = "sells a lot but brings in only"
          /\ findings[i].s = productName(rows.items[FirstIndex(MismatchRows(rows.items))])


\* The granularity is monthly with two or more month keys and weekly
\* otherwise; the periods are the keys of the rows with a parsable date.
IsMonthly(rs) == Cardinality({MonthKeyOf(rs[i]) : i \in Parsable(rs)}) >= 2
PeriodKeyOf(rs, i) == IF IsMonthly(rs) THEN MonthKeyOf(rs[i]) ELSE WeekKeyOf(rs[i])
PeriodKeys(rs) == {PeriodKeyOf(rs, i) : i \in Parsable(rs)}
LastPeriodKey(rs) ==
    CHOOSE k \in PeriodKeys(rs) : \A x \in PeriodKeys(rs) : x = k \/ StrLess(x, k)
DatedRowsOf(rs, i) == Parsable(rs) \cap RowsNamed(rs, productName(rs[i]))
\* The revenue of the product of row i in the last period, and the number
\* of periods with a row of that product.
RecentRevenue(rs, i) ==
    RevenueOfRows(rs, {j \in DatedRowsOf(rs, i) : PeriodKeyOf(rs, j) = LastPeriodKey(rs)})
PeriodsAppeared(rs, i) == Cardinality({PeriodKeyOf(rs, j) : j \in DatedRowsOf(rs, i)})
\* recent >= 1.5 * (revenue / periods)
AtLeastOneAndAHalf(recent, revenue, periods) ==
    periods > 0 /\ 2 * periods * recent >= 3 * revenue
SpikeRowsAsClaimed(rs) ==
    {i \in FirstRows(rs) :
        AtLeastOneAndAHalf(RecentRevenue(rs, i), RevenueOf(rs, i), PeriodsAppeared(rs, i))}
\* The divisor is the number of months of the data under monthly
\* granularity and the product's own number of weeks under weekly; the
\* average has to be above 0.
SpikeRows(rs) ==
    {i \in FirstRows(rs) :
        /\ RevenueOf(rs, i) > 0
        /\ AtLeastOneAndAHalf(RecentRevenue(rs, i), RevenueOf(rs, i),
                              IF IsMonthly(rs) THEN Cardinality(PeriodKeys(rs))
                              ELSE PeriodsAppeared(rs, i))}
SpikeNames(hits, rs) ==
    IF Cardinality(PeriodKeys(rs)) < 2 \/ hits = {}
    THEN /\ FindingsOfKind(findings, "had a recent spike in sales") = {}
         /\ FindingsOfKind(actions, "Restock to avoid running out") = {}
    ELSE /\ NamesOnly(findings, "had a recent spike in sales",
                      productName(rs[FirstIndex(hits)]))
         /\ NamesOnly(actions, "Restock to avoid running out",
                      productName(rs[FirstIndex(hits)]))

\* C26 as claimed: only with 2 or more periods of the chosen granularity, at
\* most one recent-spike finding and one restock action are appended, naming
\* the first product (in order of first appearance) whose revenue in the
\* most recent period is at least 1.5 times its total revenue divided by the
\* number of periods the product appeared in.
C26_SpikeOverOwnPeriods ==
    (pc = "done" /\ ~TooFewRows) => SpikeNames(SpikeRowsAsClaimed(rows.items), rows.items)

\* C26 amended: the average is the product's total revenue divided by the
\* number of months in the data under monthly granularity, and by the
\* number of weeks the product appeared in under weekly granularity; the
\* product named is the first whose average is above 0 and whose revenue in
\* the period of the last key is at least 1.5 times that average.
C26_SpikeOverPeriodCount ==
    (pc = "done" /\ ~TooFewRows) => SpikeNames(SpikeRows(rows.items), rows.items)

\* Monthly granularity with a product sold in the last month only: its
\* last-month revenue is its own average, and twice its revenue divided by
\* the two months; it is reported as a spike.
C26_Witness ==
    /\ pc = "done" /\ ~TooFewRows /\ IsMonthly(rows.items)
    /\ SpikeRowsAsClaimed(rows.items) = {}
    /\ SpikeRows(rows.items) # {}
    /\ FindingsOfKind(findings, "had a recent spike in sales") # {}


\* C27: for finite current and finite previous other than 0, a negative
\* previous included, computeGrowth reports "up" only if current > previous
\* and "down" only if current < previous.
C27_DirectionFollowsComparison ==
    (growth.called /\ IsFinite(previous) /\ previous.n # 0) =>
        /\ growth.r.direction = "up" => current.n > previous.n
        /\ growth.r.direction = "down" => current.n < previous.n


\* C28: for 3 or more rows the returned findings are not empty and contain
\* the "Top 3 products by revenue" finding and the top-category finding, and
\* the returned actions contain the "Restock and promote" action and the
\* "Focus on category" action, whatever the earlier steps appended.
C28_LeadersAlwaysReturned ==
    (pc = "done" /\ ~TooFewRows) =>
        /\ result.r.findings # <<>>
        /\ FindingsOfKind(result.r.findings, "Top 3 products by revenue") # {}
        /\ FindingsOfKind(result.r.findings, "is your top category") # {}
        /\ FindingsOfKind(result.r.actions, "Restock and promote") # {}
        /\ FindingsOfKind(result.r.actions, "Focus on category") # {}

\* A call that appended more than six findings and more than five actions,
\* with the top-category entries in the fifth and fourth place after a trend
\* and a mismatch: the cap cuts both lists and the four entries are kept.
C28_Witness ==
    /\ pc = "done" /\ ~TooFewRows
    /\ Len(uniq(findings)) > MaxFindings /\ Len(uniq(actions)) > MaxActions
    /\ Len(result.r.findings) = MaxFindings /\ Len(result.r.actions) = MaxActions
    /\ result.r.findings[5].k = "is your top category"
    /\ result.r.actions[4].k = "Focus on category"
    /\ result.r.findings[2].k = "Top 3 products by revenue"
    /\ result.r.actions[2].k = "Restock and promote"


\* A step that stores insights stores those of the rows of the last render.
StoresCurrent == insights' # insights => insights' = InsightsOf(cardRows')

\* C29: whenever the card is rendered with loading = false, the stored
\* insights are the result of generateInsights on the rows currently passed
\* in, and a result computed from superseded rows is never stored.
C29_LoadedInsightsAreCurrent ==
    /\ [](~loading => insights = InsightsOf(cardRows))
    /\ [][StoresCurrent]_vars


\* C30: from the moment a CSV file is accepted until processing ends no user
\* input closes the modal, so the modal is open whenever isProcessing is
\* true; hence a pending delayed close belongs to the session that is open.
C30_OpenWhileProcessing ==
    /\ isProcessing => open
    /\ \A i \in 1..Len(closing) : open /\ closing[i] = session
====
